---- MODULE Spec2Model ----
(***************************************************************************)
(* Sign-In With Hedera (SIWH) plugin: the nonce / verify / link / unlink   *)
(* endpoints of src/src/server/index.ts (second plugin definition, lines   *)
(* 487-1187) and the address checksum of src/unnamed/part_002.             *)
(*                                                                         *)
(* Every request is a process that advances one awaited call at a time;    *)
(* requests interleave at their awaits.  Strings are modelled by the       *)
(* structure they are formatted from: a canonical address with checksum is *)
(* the tuple <<shard, realm, num, l1, .., l5>>, a verification identifier  *)
(* "siwh:<addr>:<chain>" is [address, chainId], an account id              *)
(* "<addr>:<chain>" is [address, suffix].                                  *)
(***************************************************************************)
EXTENDS Integers, Sequences, FiniteSets, TLC

\* ------------------------------------------------------------------ bounds
\* Two regimes are explored.  "serial": requests are served one at a time,
\* the clock runs and MaxNonces nonces are issued.  "overlap": two requests
\* are in flight at a time, the clock is held and one nonce fewer is issued.
\* requests started in one behaviour
MaxRequests == 2
\* nonces issued in one behaviour
MaxNonces == 2
\* clock advances in one behaviour
MaxTicks == 1
Regimes == {"serial", "overlap"}

\* ------------------------------------------------ src/unnamed/part_001 3-8
Mainnet == "hedera:mainnet"
Testnet == "hedera:testnet"
Previewnet == "hedera:previewnet"
Devnet == "hedera:devnet"
HederaChainId == {Mainnet, Testnet, Previewnet, Devnet}

\* ------------------------------------------- src/unnamed/part_002 checksum
p3 == 26 * 26 * 26
p5 == 26 * 26 * 26 * 26 * 26
m == 1000003
w == 31

RECURSIVE DecimalDigits(_)
\* the decimal digits of n, most significant first (`${n}`)
DecimalDigits(n) ==
  IF n < 10 THEN <<n>> ELSE Append(DecimalDigits(n \div 10), n % 10)

\* `${a[0]}.${a[1]}.${a[2]}` as the digit list d of checksum(): "." is 10
noChecksumFormat(a) ==
  DecimalDigits(a[1]) \o <<10>> \o DecimalDigits(a[2]) \o <<10>> \o DecimalDigits(a[3])

\* a map in which devnet has a ledger id of its own
ledgerIdMap_DevnetOwnId(chainId) ==
  CASE chainId = Mainnet -> <<0, 0>>
    [] chainId = Testnet -> <<0, 1>>
    [] chainId = Previewnet -> <<0, 2>>
    [] chainId = Devnet -> <<0, 3>>

\* a map in which previewnet has testnet's ledger id
ledgerIdMap_PreviewnetAsTestnet(chainId) ==
  CASE chainId = Mainnet -> <<0, 0>>
    [] chainId = Testnet -> <<0, 1>>
    [] chainId = Previewnet -> <<0, 1>>
    [] chainId = Devnet -> <<0, 1>>

\* ledgerIdMap: the two hex digits of the ledger id of a chain
ledgerIdMap(chainId) ==
  CASE chainId = Mainnet -> <<0, 0>>
    [] chainId = Testnet -> <<0, 1>>
    [] chainId = Previewnet -> <<0, 2>>
    [] chainId = Devnet -> <<0, 1>>

\* h: ledgerId + "000000000000", left-padded to even length, read as bytes
LedgerBytes(ledgerId) ==
  LET id0 == ledgerId \o <<0, 0, 0, 0, 0, 0, 0, 0, 0, 0, 0, 0>>
      id == IF Len(id0) % 2 = 1 THEN <<0>> \o id0 ELSE id0
  IN [i \in 1..(Len(id) \div 2) |-> 16 * id[2 * i - 1] + id[2 * i]]

RECURSIVE Horner(_, _, _)
\* s = (w * s + x[i]) % modulus over the first n entries of x
Horner(x, n, modulus) ==
  IF n = 0 THEN 0 ELSE (w * Horner(x, n - 1, modulus) + x[n]) % modulus

RECURSIVE SumAt(_, _, _)
\* sum (mod 11) of the entries of d at 0-based positions of the given parity
SumAt(d, n, parity) ==
  IF n = 0 THEN 0
  ELSE IF (n - 1) % 2 = parity
       THEN (SumAt(d, n - 1, parity) + d[n]) % 11
       ELSE SumAt(d, n - 1, parity)

RECURSIVE MulMod(_, _, _)
\* (a * b) % n, exact: the product c * m is below 2^53, so the code's double
\* arithmetic is exact; here it is formed by doubling to stay in range
MulMod(a, b, n) ==
  IF b = 0 THEN 0
  ELSE LET half == MulMod(a, b \div 2, n)
       IN (2 * half + (IF b % 2 = 1 THEN a ELSE 0)) % n

RECURSIVE Pow26(_)
Pow26(i) == IF i = 0 THEN 1 ELSE 26 * Pow26(i - 1)

\* String.fromCharCode(x) of x = num / den >= 0: ToUint16 drops the fraction
fromCharCode_Rounding(num, den) == (2 * num + den) \div (2 * den)
fromCharCode(num, den) == num \div den

\* The five letters (0 = "a") of cp, as the loop of lines 61-64 makes them.
\* cp /= 26 divides doubles, so after i rounds cp holds cp0 / 26^i, which is
\* no integer in general; cp % 26 keeps its fraction and String.fromCharCode
\* drops the fraction of ascii_a + (cp % 26).  cp is kept here as the exact
\* fraction cp0 / 26^i: cp0 < 26^5, so a quotient that is not an integer is
\* at least 26^-5 (8e-8) away from one, while the rounding of five double
\* divisions of a value below 2^24 moves it by less than 1e-8.
Letters(cp) ==
  [i \in 1..5 |-> fromCharCode(cp % Pow26(5 - i + 1), Pow26(5 - i))]

checksum(ledgerId, d) ==
  LET h == LedgerBytes(ledgerId)
      sd == Horner(d, Len(d), p3)
      sd0 == SumAt(d, Len(d), 0)
      sd1 == SumAt(d, Len(d), 1)
      sh == Horner(h, Len(h), p5)
      c == ((((Len(d) % 5) * 11 + sd0) * 11 + sd1) * p3 + sd + sh) % p5
      cp == MulMod(c, m, p5)
  IN Letters(cp)

\* withChecksumFormat of toChecksumAddress for an address given without a
\* checksum suffix (the only form the endpoints' body schema admits):
\* <<shard, realm, num>> followed by the five checksum letters
withChecksumFormat(chainId, a) ==
  <<a[1], a[2], a[3]>> \o checksum(ledgerIdMap(chainId), noChecksumFormat(a))


\* canonical addresses of all modelled inputs, computed once
WalletAddressOf ==
  [c \in HederaChainId, a \in {<<0, 0, 3>>, <<0, 0, 12>>} |-> withChecksumFormat(c, a)]

\* ---------------------------------- src/unnamed/part_002 toChecksumAddress
\* Strings are sequences of UTF-16 code units.
Dot == 46
Hyphen == 45
Zero == 48
ascii_a == 97

\* \d and [a-z]
IsDigit(ch) == ch \in Zero..(Zero + 9)
IsLetter(ch) == ch \in ascii_a..(ascii_a + 25)

\* s as a whole matches (0|(?:[1-9]\d*))
Component(s) ==
  /\ s # <<>>
  /\ \A i \in DOMAIN s : IsDigit(s[i])
  /\ s[1] = Zero => Len(s) = 1

\* s as a whole matches [a-z]{5}
FiveLetters(s) == Len(s) = 5 /\ \A i \in DOMAIN s : IsLetter(s[i])

Positions(s, ch) == {i \in DOMAIN s : s[i] = ch}
First(S) == CHOOSE x \in S : \A y \in S : x <= y
Last(S) == CHOOSE x \in S : \A y \in S : y <= x

\* the result of a failed String.prototype.match, and a group that took no part
NoMatch == <<>>
undefined == <<>>

\* The pieces of address around its "." and "-".  No group of the two address
\* patterns can hold either character, so a match needs two dots and at most
\* one hyphen, and then the groups can only be these pieces.
Pieces(address) ==
  LET dots == Positions(address, Dot)
      hyphens == Positions(address, Hyphen)
  IN IF Cardinality(dots) # 2 \/ Cardinality(hyphens) > 1 THEN NoMatch
     ELSE LET i == First(dots)
              j == Last(dots)
              k == IF hyphens = {} THEN Len(address) + 1 ELSE First(hyphens)
          IN <<SubSeq(address, 1, i - 1), SubSeq(address, i + 1, j - 1),
               SubSeq(address, j + 1, k - 1),
               SubSeq(address, k + 1, Len(address))>>

\* address.match(/^(0|(?:[1-9]\d*))\.(0|(?:[1-9]\d*))\.(0|(?:[1-9]\d*))
\*                (?:-([a-z]{5}))?$/): the four groups, or NoMatch
match(address) ==
  LET g == Pieces(address)
  IN IF /\ g # NoMatch
        /\ Component(g[1]) /\ Component(g[2]) /\ Component(g[3])
        /\ Positions(address, Hyphen) = {} \/ FiveLetters(g[4])
       THEN g
       ELSE NoMatch

\* the walletAddress of the endpoints' body schemas: z.string().regex(
\* /^(0|(?:[1-9]\d*))\.(0|(?:[1-9]\d*))\.(0|(?:[1-9]\d*))$/)
walletAddressSchema(address) ==
  LET g == Pieces(address)
  IN /\ g # NoMatch
     /\ Positions(address, Hyphen) = {}
     /\ Component(g[1]) /\ Component(g[2]) /\ Component(g[3])

\* A Number that is a whole number is modelled by the decimal digits of its
\* exact value, most significant first.  2^53, from which on not every whole
\* number is a Number:
TwoTo53 == <<9, 0, 0, 7, 1, 9, 9, 2, 5, 4, 7, 4, 0, 9, 9, 2>>

RECURSIVE Less(_, _)
\* a < b for digit lists of one length
Less(a, b) ==
  /\ a # <<>>
  /\ a[1] < b[1] \/ (a[1] = b[1] /\ Less(Tail(a), Tail(b)))

RECURSIVE Increment(_)
\* v + 1 on digit lists
Increment(v) ==
  IF v = <<>> THEN <<1>>
  ELSE IF v[Len(v)] < 9 THEN [v EXCEPT ![Len(v)] = @ + 1]
  ELSE Append(Increment(SubSeq(v, 1, Len(v) - 1)), 0)

\* The Number value of the whole number with digits v, for v of at most 16
\* digits (below 2^54): exact below 2^53; from 2^53 on the Numbers are the
\* even numbers, an odd v goes to the nearer-or-equal neighbour with the even
\* significand, which is the neighbour divisible by 4.
ToNumber(v) ==
  IF \/ Len(v) < Len(TwoTo53)
     \/ Len(v) = Len(TwoTo53) /\ Less(v, TwoTo53)
     \/ v[Len(v)] % 2 = 0
    THEN v
  ELSE IF (10 * v[Len(v) - 1] + v[Len(v)]) % 4 = 1
    THEN [v EXCEPT ![Len(v)] = @ - 1]
  ELSE Increment(v)

\* parseInt(s) of a string of decimal digits
parseInt(s) == ToNumber([i \in DOMAIN s |-> s[i] - Zero])

\* `${n}` of a whole Number below 2^54: Number::toString gives the digits of
\* its exact value
NumberToString(n) == [i \in DOMAIN n |-> Zero + n[i]]

\* d of checksum(): the digits of addr, with 10 for "."
AddrDigits(addr) ==
  [i \in DOMAIN addr |-> IF addr[i] = Dot THEN 10 ELSE addr[i] - Zero]

\* answer of checksum(): String.fromCharCode(ascii_a + letter), in order
Answer(letters) == [i \in DOMAIN letters |-> ascii_a + letters[i]]

\* the status of toChecksumAddress (1: the given checksum is wrong, 2: none
\* is given, 3: the given checksum is right)
StatusOf_SuffixIgnored(given, c) == 2
StatusOf(given, c) == IF given = undefined THEN 2 ELSE IF c = given THEN 3 ELSE 1

toChecksumAddress(chainId, address) ==
  LET found == match(address)
  IN IF found = NoMatch THEN [isValid |-> FALSE, status |-> 0]
     ELSE LET ledgerId == ledgerIdMap(chainId)
              a == <<parseInt(found[1]), parseInt(found[2]), parseInt(found[3])>>
              ad == NumberToString(a[1]) \o <<Dot>> \o NumberToString(a[2])
                      \o <<Dot>> \o NumberToString(a[3])
              c == Answer(checksum(ledgerId, AddrDigits(ad)))
              s == StatusOf(found[4], c)
          IN [isValid |-> s # 1, status |-> s,
              num1 |-> a[1], num2 |-> a[2], num3 |-> a[3],
              givenChecksum |-> found[4], correctChecksum |-> c,
              noChecksumFormat |-> ad,
              withChecksumFormat |-> ad \o <<Hyphen>> \o c]

\* ------------------------------------------------------------------ inputs
\* walletAddress values of request bodies (they match the body regex)
RawAddresses == {<<0, 0, 3>>}
\* chainId values of request bodies
ChainIds == {Mainnet, Testnet}
NoEmail == "none"
\* email values of request bodies
Emails == {NoEmail, "a@example.com"}
\* clock advances, in ms: 901 s, one second more than the nonce lifetime
TickMs == {901 * 1000}
\* the requests that can be in flight at one time; a request that ended
\* leaves its place to the next one
Requests == {1, 2}

VARIABLES
  regime,         \* how the requests of this behaviour are scheduled
  options,        \* the plugin's options: anonymous, autoSignUp
  now,            \* Date.now(), ms
  ticks,          \* clock advances so far
  verification,   \* internalAdapter's verification table
  walletAddress,  \* adapter model "walletAddress"
  account,        \* internalAdapter's account table
  user,           \* adapter model "user"
  session,        \* internalAdapter's sessions
  issued,         \* nonces issued so far
  started,        \* requests started so far
  req,            \* the requests: inputs, position (pc), locals, outcome
  parsed,         \* a walletAddress string and what the address code makes of it
  transport       \* a signature's bytes, their base64 text and the bytes read back

vars ==
  <<regime, options, now, ticks, verification, walletAddress, account, user, session,
    issued, started, req, parsed, transport>>

\* ------------------------------------------------------- string formatting
\* `siwh:${walletAddress}:${chainId}`
Identifier(address, chainId) == [address |-> address, chainId |-> chainId]
\* `${walletAddress}:${chainId}`
SiwhAccountId(address, chainId) == [address |-> address, chainId |-> chainId]
\* a walletAddress string read as an account id: it has no ":chainId" part
BareAccountId(address) == [address |-> address, chainId |-> ""]
\* user.id as the account id of a password account
UserAccountId(userId) == [address |-> <<userId>>, chainId |-> ""]
\* `${walletAddress}@${domain}`, and an email given in the body
WalletEmail(address) == [local |-> address, given |-> NoEmail]
GivenEmail(email) == [local |-> <<>>, given |-> email]
NoUserEmail == [local |-> <<>>, given |-> NoEmail]

\* ---------------------------------------------------------------- requests
\* options.domain
Domain == "example.com"

\* options.verifyMessage was not called
NoCall == [called |-> FALSE]

Idle ==
  [op |-> "none", pc |-> "idle", status |-> "", chainId |-> "",
   address |-> <<>>, sessionUser |-> 0, isSignUp |-> FALSE,
   userEmail |-> NoUserEmail, password |-> FALSE, verification |-> 0,
   nonce |-> 0, existingWalletAddress |-> FALSE, candidate |-> 0,
   userId |-> 0, signUp |-> FALSE, cookie |-> FALSE,
   allowUnlinkingAll |-> FALSE, thrown |-> FALSE, verified |-> FALSE,
   call |-> NoCall]

\* a request that ended, with an APIError (throw) or with a response (return):
\* its locals are gone, what it was asked and what it answered stay
Ended(r, status) ==
  [Idle EXCEPT !.op = r.op, !.pc = "done", !.status = status,
               !.chainId = r.chainId, !.address = r.address,
               !.sessionUser = r.sessionUser, !.nonce = r.nonce,
               !.userId = r.userId, !.signUp = r.signUp, !.cookie = r.cookie,
               !.allowUnlinkingAll = r.allowUnlinkingAll,
               !.userEmail = r.userEmail, !.thrown = r.thrown,
               !.verified = r.verified, !.call = r.call]

Running(r) == req[r].pc \notin {"idle", "done"}
At(r, op, pc) == req[r].op = op /\ req[r].pc = pc
Free(r) == req[r].pc \in {"idle", "done"}
\* a request arrives: it takes the first free place
New(r) ==
  /\ started < MaxRequests
  /\ Free(r)
  /\ \A o \in Requests : Free(o) => r <= o
  /\ regime = "serial" => \A o \in Requests : Free(o)

\* nothing is parsed (the endpoints' requests are modelled by req)
NothingParsed ==
  [chainId |-> "", parts |-> <<>>, given |-> FALSE, suffix |-> <<>>,
   called |-> FALSE, result |-> [isValid |-> FALSE, status |-> 0],
   body |-> ""]

\* no signature is being encoded (the endpoints take the signature as a string)
NothingSent ==
  [bytes |-> <<>>, encodedOn |-> "", base64 |-> <<>>, decodedOn |-> "",
   result |-> <<>>]

Init ==
  /\ regime \in Regimes
  /\ options \in [anonymous : BOOLEAN, autoSignUp : BOOLEAN]
  /\ parsed = NothingParsed
  /\ transport = NothingSent
  /\ now = 0
  /\ ticks = 0
  /\ verification = {}
  /\ walletAddress = {}
  \* two identities are signed in: one that signed up with email and password
  \* before, and an anonymous one (a guest of the host's anonymous sign-in)
  /\ user = {[id |-> 1, email |-> GivenEmail("a@example.com"),
              isAnonymous |-> FALSE],
             [id |-> 2, email |-> GivenEmail("temp@example.com"),
              isAnonymous |-> TRUE]}
  /\ account = {[id |-> 1, userId |-> 1, providerId |-> "credential",
                 accountId |-> UserAccountId(1)]}
  /\ session = {[userId |-> 1], [userId |-> 2]}
  /\ issued = 0
  /\ started = 0
  /\ req = [r \in Requests |-> Idle]

\* the id the store gives a new row of a table: one not in the table
NewId(table) ==
  IF table = {} THEN 1
  ELSE 1 + (CHOOSE i \in {x.id : x \in table} : \A x \in table : x.id <= i)

\* ------------------------------------------------------------------- clock
Tick(d) ==
  /\ regime = "serial"
  /\ ticks < MaxTicks
  /\ now' = now + d
  /\ ticks' = ticks + 1
  /\ UNCHANGED <<transport, parsed, regime, options, verification, walletAddress, account, user, session,
                 issued, started, req>>

\* ------------------------------------------------------------ getSiwhNonce
\* options.getNonce(): a secure random string, so a value not seen before
getNonce == issued + 1

\* internalAdapter.createVerificationValue: inserts a row (rows have their own
\* id, by which deleteVerificationValue removes them)
createVerificationValue(id, identifier, value, expiresAt) ==
  verification \cup
    {[id |-> id, identifier |-> identifier, value |-> value, expiresAt |-> expiresAt]}

getSiwhNonce(rawAddress, chainId) ==
  /\ issued < (IF regime = "serial" THEN MaxNonces ELSE MaxNonces - 1)
  /\ issued' = issued + 1
  /\ verification' =
       createVerificationValue(issued + 1,
         Identifier(WalletAddressOf[chainId, rawAddress], chainId),
         getNonce, now + 15 * 60 * 1000)
  /\ UNCHANGED <<transport, parsed, regime, options, now, ticks, walletAddress, account, user, session,
                 started, req>>

\* ------------------------------------------ the verification table (reads)
\* a lookup by the address alone, whatever the chain of the identifier
findVerificationValue_AnyChain(identifier) ==
  LET rows == {v \in verification : v.identifier.address = identifier.address}
  IN IF rows = {} THEN 0
     ELSE (CHOOSE v \in rows : \A o \in rows : o.id <= v.id).id

\* internalAdapter.findVerificationValue: the most recently created row of
\* the identifier (ids grow with creation), 0 when there is none
findVerificationValue(identifier) ==
  LET rows == {v \in verification : v.identifier = identifier}
  IN IF rows = {} THEN 0
     ELSE (CHOOSE v \in rows : \A o \in rows : o.id <= v.id).id

VerificationRow(id) == CHOOSE v \in verification : v.id = id

\* NonceRejected without the test of expiresAt
NonceRejected_IgnoringExpiry(id) == id = 0

\* !verification || new Date() > verification.expiresAt
NonceRejected(id) == id = 0 \/ now > VerificationRow(id).expiresAt

\* internalAdapter.deleteVerificationValue(id)
deleteVerificationValue(id) == {v \in verification : v.id # id}

\* --------------------------------------------------------- verifySiwhMessage
\* !isAnon && email ? email : `${walletAddress}@${domain}`
userEmail(isAnon, email, address) ==
  IF ~isAnon /\ email # NoEmail THEN GivenEmail(email) ELSE WalletEmail(address)

\* emailRequired with the test of isAnon inverted
emailRequired_WhenAnonymous(isAnon, email) == isAnon /\ email = NoEmail

\* !isAnon && !email (and the body schema's refine, which tests the same)
emailRequired(isAnon, email) == ~isAnon /\ email = NoEmail

\* the arguments of options.verifyMessage as the earlier revision of verify
\* passes them: address is the address with its checksum
VerifyMessageArgs_ChecksumAddress(rawWalletAddress, chainId, nonce) ==
  [called |-> TRUE, address |-> WalletAddressOf[chainId, rawWalletAddress],
   chainId |-> chainId,
   cacao |-> [h |-> [t |-> "caip122"],
              p |-> [domain |-> Domain, aud |-> Domain, nonce |-> nonce,
                     iss |-> Domain, version |-> "1"],
              s |-> [t |-> "ed25519"]]]

\* the arguments verify passes to options.verifyMessage (message and signature
\* are the body's, passed on as they are)
VerifyMessageArgs(rawWalletAddress, chainId, nonce) ==
  [called |-> TRUE, address |-> rawWalletAddress, chainId |-> chainId,
   cacao |-> [h |-> [t |-> "caip122"],
              p |-> [domain |-> Domain, aud |-> Domain, nonce |-> nonce,
                     iss |-> Domain, version |-> "1"],
              s |-> [t |-> "ed25519"]]]

\* a link whose challenge names the address as the issuer
LinkMessageArgs_IssuerAddress(rawWalletAddress, chainId, nonce) ==
  [called |-> TRUE, address |-> rawWalletAddress, chainId |-> chainId,
   cacao |-> [h |-> [t |-> "caip122"],
              p |-> [domain |-> Domain, aud |-> Domain, nonce |-> nonce,
                     iss |-> rawWalletAddress, version |-> "1"],
              s |-> [t |-> "ed25519"]]]

\* the arguments link passes to options.verifyMessage
LinkMessageArgs(rawWalletAddress, chainId, nonce) ==
  [called |-> TRUE, address |-> rawWalletAddress, chainId |-> chainId,
   cacao |-> [h |-> [t |-> "caip122"],
              p |-> [domain |-> Domain, aud |-> Domain, nonce |-> nonce,
                     iss |-> Domain, version |-> "1"],
              s |-> [t |-> "ed25519"]]]

\* a verify that tells an expired nonce from a missing one
VerifyFindVerificationValue_TellingExpiry(r, rawAddress, chainId, email) ==
  /\ New(r)
  /\ started' = started + 1
  /\ LET address == WalletAddressOf[chainId, rawAddress]
         isAnon == options.anonymous
         body == [Idle EXCEPT !.op = "verify", !.chainId = chainId,
                    !.address = address,
                    !.userEmail = userEmail(isAnon, email, address)]
         found == findVerificationValue(Identifier(address, chainId))
     IN req' = [req EXCEPT ![r] =
          IF emailRequired(isAnon, email)
            THEN Ended(body, "EMAIL_REQUIRED")
          ELSE IF found = 0
            THEN Ended(body, "INVALID_OR_EXPIRED_NONCE")
          ELSE IF NonceRejected(found)
            THEN Ended(body, "NONCE_EXPIRED")
          ELSE [body EXCEPT !.pc = "verifyMessage", !.verification = found,
                            !.nonce = VerificationRow(found).value,
                            !.call = VerifyMessageArgs(rawAddress, chainId,
                                       VerificationRow(found).value)]]
  /\ UNCHANGED <<transport, parsed, regime, options, now, ticks, verification, walletAddress, account,
                 user, session, issued>>

\* body destructuring, toChecksumAddress, the email check, and the first
\* awaited call (findVerificationValue) with the test of its result.  The
\* body is immutable: isSignUp and data.password enter the state where the
\* code first reads them.
VerifyFindVerificationValue(r, rawAddress, chainId, email) ==
  /\ New(r)
  /\ started' = started + 1
  /\ LET address == WalletAddressOf[chainId, rawAddress]
         isAnon == options.anonymous
         body == [Idle EXCEPT !.op = "verify", !.chainId = chainId,
                    !.address = address,
                    !.userEmail = userEmail(isAnon, email, address)]
         found == findVerificationValue(Identifier(address, chainId))
     IN req' = [req EXCEPT ![r] =
          IF emailRequired(isAnon, email)
            THEN Ended(body, "EMAIL_REQUIRED")
          ELSE IF NonceRejected(found)
            THEN Ended(body, "INVALID_OR_EXPIRED_NONCE")
          ELSE [body EXCEPT !.pc = "verifyMessage", !.verification = found,
                            !.nonce = VerificationRow(found).value,
                            !.call = VerifyMessageArgs(rawAddress, chainId,
                                       VerificationRow(found).value)]]
  /\ UNCHANGED <<transport, parsed, regime, options, now, ticks, verification, walletAddress, account,
                 user, session, issued>>

\* a verify that goes on whatever the verifier answers
VerifyVerifyMessage_TrustingAny(r, verified) ==
  /\ At(r, "verify", "verifyMessage")
  /\ req' = [req EXCEPT ![r].pc = "deleteVerificationValue",
                         ![r].verified = verified]
  /\ UNCHANGED <<transport, parsed, regime, options, now, ticks, verification, walletAddress, account,
                 user, session, issued, started>>

\* VerifyVerifyMessage that deletes the nonce before it tests the answer
VerifyVerifyMessage_ConsumingFirst(r, verified) ==
  /\ At(r, "verify", "verifyMessage")
  /\ verification' = deleteVerificationValue(req[r].verification)
  /\ req' = [req EXCEPT ![r] =
       IF ~verified THEN Ended(@, "INVALID_SIGNATURE")
       ELSE [@ EXCEPT !.pc = "deleteVerificationValue", !.verified = TRUE]]
  /\ UNCHANGED <<transport, parsed, regime, options, now, ticks, walletAddress, account, user, session,
                 issued, started>>

\* await options.verifyMessage({... cacao.p.nonce = nonce ...}): the injected
\* verifier answers true or false
VerifyVerifyMessage(r, verified) ==
  /\ At(r, "verify", "verifyMessage")
  /\ req' = [req EXCEPT ![r] =
       IF ~verified THEN Ended(@, "INVALID_SIGNATURE")
       ELSE [@ EXCEPT !.pc = "deleteVerificationValue", !.verified = TRUE]]
  /\ UNCHANGED <<transport, parsed, regime, options, now, ticks, verification, walletAddress, account,
                 user, session, issued, started>>

VerifyDeleteVerificationValue(r) ==
  /\ At(r, "verify", "deleteVerificationValue")
  /\ verification' = deleteVerificationValue(req[r].verification)
  /\ req' = [req EXCEPT ![r].pc = "findWalletAddress"]
  /\ UNCHANGED <<transport, parsed, regime, options, now, ticks, walletAddress, account, user, session,
                 issued, started>>

\* Resolved that signs up whenever no user was found
Resolved_AlwaysSigningUp(q, userId, isSignUp) ==
  IF userId = 0
    THEN [q EXCEPT !.pc = "findUserByEmail", !.userId = 0, !.isSignUp = isSignUp]
    ELSE IF ~q.existingWalletAddress
           THEN [q EXCEPT !.pc = "createWalletAddress", !.userId = userId]
           ELSE [q EXCEPT !.pc = "createSession", !.userId = userId]

\* the code after the user lookups: sign-up, cross-chain attach or sign-in
Resolved(q, userId, isSignUp) ==
  IF userId = 0
    THEN IF ~options.autoSignUp /\ ~isSignUp
           THEN Ended([q EXCEPT !.isSignUp = isSignUp], "USER_NOT_FOUND")
           ELSE [q EXCEPT !.pc = "findUserByEmail", !.userId = 0,
                          !.isSignUp = isSignUp]
    ELSE IF ~q.existingWalletAddress
           THEN [q EXCEPT !.pc = "createWalletAddress", !.userId = userId]
           ELSE [q EXCEPT !.pc = "createSession", !.userId = userId]

\* adapter.findOne("walletAddress", address = .. AND chainId = ..)
VerifyFindWalletAddress(r) ==
  /\ At(r, "verify", "findWalletAddress")
  /\ LET rows == {x \in walletAddress :
                    x.address = req[r].address /\ x.chainId = req[r].chainId}
     IN IF rows = {}
          THEN req' = [req EXCEPT ![r].pc = "findAnyWalletAddress"]
          ELSE \E x \in rows :
                 req' = [req EXCEPT ![r].pc = "findUser",
                                    ![r].existingWalletAddress = TRUE,
                                    ![r].candidate = x.userId]
  /\ UNCHANGED <<transport, parsed, regime, options, now, ticks, verification, walletAddress, account,
                 user, session, issued, started>>

\* adapter.findOne("walletAddress", address = ..): the address on any chain
VerifyFindAnyWalletAddress(r, isSignUp) ==
  /\ At(r, "verify", "findAnyWalletAddress")
  /\ LET rows == {x \in walletAddress : x.address = req[r].address}
     IN IF rows = {}
          THEN req' = [req EXCEPT ![r] = Resolved(@, 0, isSignUp)]
          ELSE \E x \in rows :
                 req' = [req EXCEPT ![r].pc = "findUser",
                                    ![r].candidate = x.userId]
  /\ UNCHANGED <<transport, parsed, regime, options, now, ticks, verification, walletAddress, account,
                 user, session, issued, started>>

\* adapter.findOne("user", id = ..)
VerifyFindUser(r, isSignUp) ==
  /\ At(r, "verify", "findUser")
  /\ LET found == IF \E u \in user : u.id = req[r].candidate
                    THEN req[r].candidate ELSE 0
     IN req' = [req EXCEPT ![r] = Resolved([@ EXCEPT !.candidate = 0], found, isSignUp)]
  /\ UNCHANGED <<transport, parsed, regime, options, now, ticks, verification, walletAddress, account,
                 user, session, issued, started>>

\* adapter.create("walletAddress", ...)
createWalletAddress(id, userId, address, chainId, isPrimary) ==
  walletAddress \cup
    {[id |-> id, userId |-> userId, address |-> address, chainId |-> chainId,
      isPrimary |-> isPrimary]}

\* internalAdapter.createAccount / linkAccount
createAccount(id, userId, providerId, accountId) ==
  account \cup
    {[id |-> id, userId |-> userId, providerId |-> providerId,
      accountId |-> accountId]}

\* internalAdapter.findUserByEmail(userEmail)
VerifyFindUserByEmail(r) ==
  /\ At(r, "verify", "findUserByEmail")
  /\ req' = [req EXCEPT ![r] =
       IF \E u \in user : u.email = @.userEmail
         THEN Ended(@, "USER_ALREADY_EXISTS")
         ELSE [@ EXCEPT !.pc = "createUser"]]
  /\ UNCHANGED <<transport, parsed, regime, options, now, ticks, verification, walletAddress, account,
                 user, session, issued, started>>

\* a createUser that replaces the identity holding the email
VerifyCreateUser_Upserting(r) ==
  /\ At(r, "verify", "createUser")
  /\ user' = {u \in user : u.email # req[r].userEmail}
               \cup {[id |-> NewId(user), email |-> req[r].userEmail,
                      isAnonymous |-> FALSE]}
  /\ req' = [req EXCEPT ![r].pc = "createWalletAddress",
                         ![r].userId = NewId(user),
                         ![r].signUp = TRUE]
  /\ UNCHANGED <<transport, parsed, regime, options, now, ticks, verification, walletAddress, account,
                 session, issued, started>>

\* internalAdapter.createUser({name, email: userEmail}).  The store is outside
\* this repository: given an email that a user row already has, it inserts the
\* row (no uniqueness enforced) or throws (the user model's unique email
\* enforced), and the handler's catch answers INTERNAL_SERVER_ERROR.
VerifyCreateUser(r) ==
  /\ At(r, "verify", "createUser")
  /\ \/ /\ user' = user \cup {[id |-> NewId(user), email |-> req[r].userEmail,
                               isAnonymous |-> FALSE]}
        /\ req' = [req EXCEPT ![r].pc = "createWalletAddress",
                               ![r].userId = NewId(user),
                               ![r].signUp = TRUE]
     \/ /\ \E u \in user : u.email = req[r].userEmail
        /\ user' = user
        /\ req' = [req EXCEPT ![r] =
                     Ended([@ EXCEPT !.thrown = TRUE], "INTERNAL_SERVER_ERROR")]
  /\ UNCHANGED <<transport, parsed, regime, options, now, ticks, verification, walletAddress, account,
                 session, issued, started>>

\* adapter.create("walletAddress"): primary on sign-up (the request created its
\* user), not primary when the chain is added to a user that was found
VerifyCreateWalletAddress(r) ==
  /\ At(r, "verify", "createWalletAddress")
  /\ walletAddress' =
       createWalletAddress(NewId(walletAddress), req[r].userId, req[r].address,
                           req[r].chainId, req[r].signUp)
  /\ req' = [req EXCEPT ![r].pc = "createAccount"]
  /\ UNCHANGED <<transport, parsed, regime, options, now, ticks, verification, account, user, session,
                 issued, started>>

\* VerifyCreateAccount that goes on to createSession after a sign-up too
VerifyCreateAccount_SigningIn(r, password) ==
  /\ At(r, "verify", "createAccount")
  /\ account' = createAccount(NewId(account), req[r].userId, "siwh",
                              SiwhAccountId(req[r].address, req[r].chainId))
  /\ req' = [req EXCEPT ![r].pc = "createSession"]
  /\ UNCHANGED <<transport, parsed, regime, options, now, ticks, verification, walletAddress, user,
                 session, issued, started>>

\* internalAdapter.createAccount({providerId: "siwh", accountId: addr:chain})
VerifyCreateAccount(r, password) ==
  /\ At(r, "verify", "createAccount")
  /\ account' = createAccount(NewId(account), req[r].userId, "siwh",
                              SiwhAccountId(req[r].address, req[r].chainId))
  /\ req' = [req EXCEPT ![r] =
       IF ~@.signUp THEN [@ EXCEPT !.pc = "createSession"]
       ELSE IF password THEN [@ EXCEPT !.pc = "linkAccount", !.password = TRUE]
       ELSE Ended(@, "SIGNED_UP")]
  /\ UNCHANGED <<transport, parsed, regime, options, now, ticks, verification, walletAddress, user,
                 session, issued, started>>

\* VerifyLinkAccount that goes on to createSession after the sign-up
VerifyLinkAccount_SigningIn(r) ==
  /\ At(r, "verify", "linkAccount")
  /\ account' = createAccount(NewId(account), req[r].userId, "credentials",
                              UserAccountId(req[r].userId))
  /\ req' = [req EXCEPT ![r].pc = "createSession"]
  /\ UNCHANGED <<transport, parsed, regime, options, now, ticks, verification, walletAddress, user,
                 session, issued, started>>

\* data.password: password.hash, then internalAdapter.linkAccount
VerifyLinkAccount(r) ==
  /\ At(r, "verify", "linkAccount")
  /\ account' = createAccount(NewId(account), req[r].userId, "credentials",
                              UserAccountId(req[r].userId))
  /\ req' = [req EXCEPT ![r] = Ended(@, "SIGNED_UP")]
  /\ UNCHANGED <<transport, parsed, regime, options, now, ticks, verification, walletAddress, user,
                 session, issued, started>>

\* a verify that goes on to the cookie without a session
VerifyCreateSession_IgnoringRefusal(r, created) ==
  /\ At(r, "verify", "createSession")
  /\ session' = IF created
                  THEN session \cup {[userId |-> req[r].userId]}
                  ELSE session
  /\ req' = [req EXCEPT ![r].pc = "setSessionCookie"]
  /\ UNCHANGED <<transport, parsed, regime, options, now, ticks, verification, walletAddress, account,
                 user, issued, started>>

\* internalAdapter.createSession(user.id, ctx): a session, or none
VerifyCreateSession(r, created) ==
  /\ At(r, "verify", "createSession")
  /\ session' = IF created
                  THEN session \cup {[userId |-> req[r].userId]}
                  ELSE session
  /\ req' = [req EXCEPT ![r] =
       IF created THEN [@ EXCEPT !.pc = "setSessionCookie"]
       ELSE Ended(@, "FAILED_TO_CREATE_SESSION")]
  /\ UNCHANGED <<transport, parsed, regime, options, now, ticks, verification, walletAddress, account,
                 user, issued, started>>

\* setSessionCookie, then the response with session.token
VerifySetSessionCookie(r) ==
  /\ At(r, "verify", "setSessionCookie")
  /\ req' = [req EXCEPT ![r] = Ended([@ EXCEPT !.cookie = TRUE], "SIGNED_IN")]
  /\ UNCHANGED <<transport, parsed, regime, options, now, ticks, verification, walletAddress, account,
                 user, session, issued, started>>

\* ------------------------------------------------------------ linkSiwhWallet
\* ctx.context.session of a request: no session (0), or a user with a session
SessionUsers == {0} \cup {x.userId : x \in session}
UserRow(id) == CHOOSE u \in user : u.id = id

\* a link that lets an anonymous identity through to the nonce lookup
LinkFindVerificationValue_AnonymousAllowed(r, sessionUser, rawAddress, chainId) ==
  /\ New(r)
  /\ started' = started + 1
  /\ sessionUser \in SessionUsers
  /\ LET address == WalletAddressOf[chainId, rawAddress]
         body == [Idle EXCEPT !.op = "link", !.chainId = chainId,
                    !.address = address,
                    !.sessionUser = sessionUser]
         found == findVerificationValue(Identifier(address, chainId))
     IN req' = [req EXCEPT ![r] =
          IF sessionUser = 0
            THEN Ended(body, "NOT_SIGNED_IN")
          ELSE IF NonceRejected(found)
            THEN Ended(body, "INVALID_OR_EXPIRED_NONCE")
          ELSE [body EXCEPT !.pc = "verifyMessage", !.verification = found,
                            !.nonce = VerificationRow(found).value,
                            !.call = LinkMessageArgs(rawAddress, chainId,
                                       VerificationRow(found).value)]]
  /\ UNCHANGED <<transport, parsed, regime, options, now, ticks, verification, walletAddress, account,
                 user, session, issued>>

\* the session checks, toChecksumAddress, and the first awaited call
\* (findVerificationValue) with the test of its result
LinkFindVerificationValue(r, sessionUser, rawAddress, chainId) ==
  /\ New(r)
  /\ started' = started + 1
  /\ sessionUser \in SessionUsers
  /\ LET address == WalletAddressOf[chainId, rawAddress]
         body == [Idle EXCEPT !.op = "link", !.chainId = chainId,
                    !.address = address,
                    !.sessionUser = sessionUser]
         found == findVerificationValue(Identifier(address, chainId))
     IN req' = [req EXCEPT ![r] =
          IF sessionUser = 0
            THEN Ended(body, "NOT_SIGNED_IN")
          ELSE IF UserRow(sessionUser).isAnonymous
            THEN Ended(body, "ANONYMOUS_NOT_ALLOWED")
          ELSE IF NonceRejected(found)
            THEN Ended(body, "INVALID_OR_EXPIRED_NONCE")
          ELSE [body EXCEPT !.pc = "verifyMessage", !.verification = found,
                            !.nonce = VerificationRow(found).value,
                            !.call = LinkMessageArgs(rawAddress, chainId,
                                       VerificationRow(found).value)]]
  /\ UNCHANGED <<transport, parsed, regime, options, now, ticks, verification, walletAddress, account,
                 user, session, issued>>

LinkVerifyMessage(r, verified) ==
  /\ At(r, "link", "verifyMessage")
  /\ req' = [req EXCEPT ![r] =
       IF ~verified THEN Ended(@, "INVALID_SIGNATURE")
       ELSE [@ EXCEPT !.pc = "deleteVerificationValue", !.verified = TRUE]]
  /\ UNCHANGED <<transport, parsed, regime, options, now, ticks, verification, walletAddress, account,
                 user, session, issued, started>>

LinkDeleteVerificationValue(r) ==
  /\ At(r, "link", "deleteVerificationValue")
  /\ verification' = deleteVerificationValue(req[r].verification)
  /\ req' = [req EXCEPT ![r].pc = "findWalletAddress"]
  /\ UNCHANGED <<transport, parsed, regime, options, now, ticks, walletAddress, account, user, session,
                 issued, started>>

\* LinkFindWalletAddress that answers "your account" for any owner
LinkFindWalletAddress_AnyOwner(r) ==
  /\ At(r, "link", "findWalletAddress")
  /\ LET rows == {x \in walletAddress :
                    x.address = req[r].address /\ x.chainId = req[r].chainId}
     IN IF rows = {}
          THEN req' = [req EXCEPT ![r].pc = "createWalletAddress",
                                  ![r].userId = req[r].sessionUser]
          ELSE req' = [req EXCEPT ![r] =
                   Ended([@ EXCEPT !.existingWalletAddress = TRUE],
                         "ALREADY_LINKED_TO_YOUR_ACCOUNT")]
  /\ UNCHANGED <<transport, parsed, regime, options, now, ticks, verification, walletAddress, account,
                 user, session, issued, started>>

\* adapter.findOne("walletAddress", address = .. AND chainId = ..) and the
\* already-linked errors
LinkFindWalletAddress(r) ==
  /\ At(r, "link", "findWalletAddress")
  /\ LET rows == {x \in walletAddress :
                    x.address = req[r].address /\ x.chainId = req[r].chainId}
     IN IF rows = {}
          THEN req' = [req EXCEPT ![r].pc = "createWalletAddress",
                                  ![r].userId = req[r].sessionUser]
          ELSE \E x \in rows :
                 req' = [req EXCEPT ![r] =
                   IF x.userId = @.sessionUser
                     THEN Ended([@ EXCEPT !.existingWalletAddress = TRUE],
                                "ALREADY_LINKED_TO_YOUR_ACCOUNT")
                     ELSE Ended([@ EXCEPT !.existingWalletAddress = TRUE],
                                "ALREADY_LINKED_TO_ANOTHER_ACCOUNT")]
  /\ UNCHANGED <<transport, parsed, regime, options, now, ticks, verification, walletAddress, account,
                 user, session, issued, started>>

\* a link that marks the row it creates as primary
LinkCreateWalletAddress_Primary(r) ==
  /\ At(r, "link", "createWalletAddress")
  /\ walletAddress' =
       createWalletAddress(NewId(walletAddress), req[r].sessionUser, req[r].address,
                           req[r].chainId, TRUE)
  /\ req' = [req EXCEPT ![r].pc = "createAccount"]
  /\ UNCHANGED <<transport, parsed, regime, options, now, ticks, verification, account, user, session,
                 issued, started>>

LinkCreateWalletAddress(r) ==
  /\ At(r, "link", "createWalletAddress")
  /\ walletAddress' =
       createWalletAddress(NewId(walletAddress), req[r].sessionUser, req[r].address,
                           req[r].chainId, FALSE)
  /\ req' = [req EXCEPT ![r].pc = "createAccount"]
  /\ UNCHANGED <<transport, parsed, regime, options, now, ticks, verification, account, user, session,
                 issued, started>>

LinkCreateAccount(r) ==
  /\ At(r, "link", "createAccount")
  /\ account' = createAccount(NewId(account), req[r].sessionUser, "siwh",
                              SiwhAccountId(req[r].address, req[r].chainId))
  /\ req' = [req EXCEPT ![r] = Ended(@, "LINKED")]
  /\ UNCHANGED <<transport, parsed, regime, options, now, ticks, verification, walletAddress, user,
                 session, issued, started>>

\* ---------------------------------------------------------- unlinkSiwhWallet
\* internalAdapter.findAccounts(session.user.id)
findAccounts(userId) == {a \in account : a.userId = userId}

\* accounts.find(a => a.accountId === walletAddress && a.providerId === "siwh")
accountExist(accounts, address) ==
  {a \in accounts : a.accountId = BareAccountId(address) /\ a.providerId = "siwh"}

\* LastAccount that does not read allowUnlinkingAll
LastAccount_WithoutOverride(accounts, allowUnlinkingAll) ==
  Cardinality(accounts) = 1

\* accounts.length === 1 &&
\* !ctx.context.options.account?.accountLinking?.allowUnlinkingAll
LastAccount(accounts, allowUnlinkingAll) ==
  Cardinality(accounts) = 1 /\ ~allowUnlinkingAll

\* The whole handler, one awaited call per step: the session check and
\* findAccounts with the two tests on its result (a new request), then
\* deleteAccount, then adapter.delete("walletAddress").  No account the plugin
\* creates has a bare address as its accountId, so the two delete steps are
\* never taken from the states reachable here.  allowUnlinkingAll is the
\* host option as the request's context (ctx.context.options) holds it.
unlinkSiwhWallet(r, sessionUser, rawAddress, chainId, allowUnlinkingAll) ==
  IF New(r)
    THEN
      /\ started' = started + 1
      /\ sessionUser \in SessionUsers
      /\ LET address == WalletAddressOf[chainId, rawAddress]
             body == [Idle EXCEPT !.op = "unlink", !.chainId = chainId,
                        !.address = address,
                        !.sessionUser = sessionUser,
                        !.allowUnlinkingAll = allowUnlinkingAll]
             accounts == findAccounts(sessionUser)
             matches == accountExist(accounts, address)
         IN IF sessionUser = 0
              THEN req' = [req EXCEPT ![r] = Ended(body, "NOT_SIGNED_IN")]
            ELSE IF LastAccount(accounts, allowUnlinkingAll)
              THEN req' = [req EXCEPT ![r] =
                             Ended(body, "FAILED_TO_UNLINK_LAST_ACCOUNT")]
            ELSE IF matches = {}
              THEN req' = [req EXCEPT ![r] = Ended(body, "ACCOUNT_NOT_FOUND")]
            ELSE \E a \in matches :
                   req' = [req EXCEPT ![r] =
                             [body EXCEPT !.pc = "deleteAccount",
                                          !.candidate = a.id]]
      /\ UNCHANGED <<transport, parsed, regime, options, now, ticks, verification, walletAddress, account,
                     user, session, issued>>
  ELSE IF At(r, "unlink", "deleteAccount")
    THEN
      /\ account' = {a \in account : a.id # req[r].candidate}
      /\ req' = [req EXCEPT ![r].pc = "deleteWalletAddress"]
      /\ UNCHANGED <<transport, parsed, regime, options, now, ticks, verification, walletAddress, user,
                     session, issued, started>>
  ELSE
      /\ At(r, "unlink", "deleteWalletAddress")
      /\ LET rows == {x \in walletAddress :
                        x.address = req[r].address /\ x.chainId = req[r].chainId}
         IN IF rows = {}
              THEN walletAddress' = walletAddress
              ELSE \E x \in rows : walletAddress' = walletAddress \ {x}
      /\ req' = [req EXCEPT ![r] = Ended(@, "UNLINKED")]
      /\ UNCHANGED <<transport, parsed, regime, options, now, ticks, verification, account, user, session,
                     issued, started>>

\* ------------------------------------------------------------ specification
\* a step of the clock or of a request, with the walletAddress and the chainId
\* of request bodies drawn from addresses and chains
NextOn(addresses, chains) ==
  \/ \E d \in TickMs : Tick(d)
  \/ \E a \in addresses, c \in chains : getSiwhNonce(a, c)
  \/ \E r \in Requests, a \in addresses, c \in chains, e \in Emails :
       VerifyFindVerificationValue(r, a, c, e)
  \/ \E r \in Requests, v \in BOOLEAN : VerifyVerifyMessage(r, v)
  \/ \E r \in Requests : VerifyDeleteVerificationValue(r)
  \/ \E r \in Requests : VerifyFindWalletAddress(r)
  \/ \E r \in Requests, s \in BOOLEAN : VerifyFindAnyWalletAddress(r, s)
  \/ \E r \in Requests, s \in BOOLEAN : VerifyFindUser(r, s)
  \/ \E r \in Requests : VerifyFindUserByEmail(r)
  \/ \E r \in Requests : VerifyCreateUser(r)
  \/ \E r \in Requests : VerifyCreateWalletAddress(r)
  \/ \E r \in Requests, p \in BOOLEAN : VerifyCreateAccount(r, p)
  \/ \E r \in Requests : VerifyLinkAccount(r)
  \/ \E r \in Requests, k \in BOOLEAN : VerifyCreateSession(r, k)
  \/ \E r \in Requests : VerifySetSessionCookie(r)
  \/ \E r \in Requests, u \in 0..(1 + MaxRequests), a \in addresses,
        c \in chains : LinkFindVerificationValue(r, u, a, c)
  \/ \E r \in Requests, v \in BOOLEAN : LinkVerifyMessage(r, v)
  \/ \E r \in Requests : LinkDeleteVerificationValue(r)
  \/ \E r \in Requests : LinkFindWalletAddress(r)
  \/ \E r \in Requests : LinkCreateWalletAddress(r)
  \/ \E r \in Requests : LinkCreateAccount(r)
  \/ \E r \in Requests, u \in 0..(1 + MaxRequests), a \in addresses,
        c \in chains, l \in BOOLEAN : unlinkSiwhWallet(r, u, a, c, l)

Next == NextOn(RawAddresses, ChainIds)

Spec == Init /\ [][Next]_vars

\* requests for two addresses on the two chains that share a ledger id, and
\* so the text of every address
NextTwins == NextOn({<<0, 0, 3>>, <<0, 0, 12>>}, {Testnet, Devnet})

\* the requests of Spec, made for two addresses on testnet and devnet
SpecTwins == Init /\ [][NextTwins]_vars

\* the id of an identity that the host has deleted: no user row has it, and
\* the store gives it to no new row
DeletedUser == 9

\* The state after the host deleted an identity that had signed up with the
\* wallet (0.0.3, mainnet): its user row, accounts and sessions are gone, its
\* walletAddress row is still stored (nothing in the plugin deletes it).  The
\* requests come one at a time.
InitOrphan ==
  /\ regime = "serial"
  /\ options \in [anonymous : BOOLEAN, autoSignUp : BOOLEAN]
  /\ parsed = NothingParsed
  /\ transport = NothingSent
  /\ now = 0
  /\ ticks = 0
  /\ verification = {}
  /\ walletAddress =
       {[id |-> 1, userId |-> DeletedUser,
         address |-> WalletAddressOf[Mainnet, <<0, 0, 3>>], chainId |-> Mainnet,
         isPrimary |-> TRUE]}
  /\ user = {[id |-> 1, email |-> GivenEmail("a@example.com"),
              isAnonymous |-> FALSE],
             [id |-> 2, email |-> GivenEmail("temp@example.com"),
              isAnonymous |-> TRUE]}
  /\ account = {[id |-> 1, userId |-> 1, providerId |-> "credential",
                 accountId |-> UserAccountId(1)]}
  /\ session = {[userId |-> 1], [userId |-> 2]}
  /\ issued = 0
  /\ started = 0
  /\ req = [r \in Requests |-> Idle]

SpecOrphan == InitOrphan /\ [][Next]_vars

\* --------------------------------------------- failing awaited calls
\* an error that is no APIError, as a handler lets it through
RawError == "ERROR"

\* The call a running request is about to make (findOne, create,
\* verifyMessage, deleteVerificationValue, createUser, createAccount,
\* linkAccount, password.hash, createSession, deleteAccount, delete) throws
\* an error that is no APIError.  All these calls are inside the try of their
\* handler: the catch wraps the error.
Throws(r) ==
  /\ Running(r)
  /\ req' = [req EXCEPT ![r] =
               Ended([@ EXCEPT !.thrown = TRUE], "INTERNAL_SERVER_ERROR")]
  /\ UNCHANGED <<transport, parsed, regime, options, now, ticks, verification, walletAddress,
                 account, user, session, issued, started>>

\* The first awaited call of verify and link (findVerificationValue) or of
\* unlink (findAccounts) throws, after the checks the handler makes before
\* it: also inside the try.
FirstCallThrows(r, op, sessionUser, rawAddress, chainId, email) ==
  /\ New(r)
  /\ started' = started + 1
  /\ op \in {"verify", "link", "unlink"}
  /\ IF op = "verify"
       THEN sessionUser = 0 /\ ~emailRequired(options.anonymous, email)
       ELSE /\ email = NoEmail
            /\ sessionUser \in SessionUsers \ {0}
            /\ op = "link" => ~UserRow(sessionUser).isAnonymous
  /\ LET address == WalletAddressOf[chainId, rawAddress]
         body == [Idle EXCEPT !.op = op, !.chainId = chainId,
                    !.address = address, !.sessionUser = sessionUser,
                    !.userEmail =
                      IF op = "verify"
                        THEN userEmail(options.anonymous, email, address)
                        ELSE NoUserEmail,
                    !.thrown = TRUE]
     IN req' = [req EXCEPT ![r] = Ended(body, "INTERNAL_SERVER_ERROR")]
  /\ UNCHANGED <<transport, parsed, regime, options, now, ticks, verification, walletAddress,
                 account, user, session, issued>>

\* options.getNonce() or createVerificationValue throws in getSiwhNonce: the
\* handler has no try, the error leaves it as it is; nothing is stored
getSiwhNonceThrows(r, rawAddress, chainId) ==
  /\ New(r)
  /\ started' = started + 1
  /\ req' = [req EXCEPT ![r] =
               Ended([Idle EXCEPT !.op = "nonce", !.chainId = chainId,
                        !.address = WalletAddressOf[chainId, rawAddress],
                        !.thrown = TRUE],
                     RawError)]
  /\ UNCHANGED <<transport, parsed, regime, options, now, ticks, verification, walletAddress,
                 account, user, session, issued>>

\* the requests come one at a time, and any awaited call may throw
InitFaults == Init /\ regime = "serial"

NextFaults ==
  \/ Next
  \/ \E r \in Requests : Throws(r)
  \/ \E r \in Requests, op \in {"verify", "link", "unlink"},
        u \in 0..(1 + MaxRequests), a \in RawAddresses, c \in ChainIds,
        e \in Emails : FirstCallThrows(r, op, u, a, c, e)
  \/ \E r \in Requests, a \in RawAddresses, c \in ChainIds :
       getSiwhNonceThrows(r, a, c)

SpecFaults == InitFaults /\ [][NextFaults]_vars

\* ------------------------------------------- the address code on its own
\* whole numbers 0..MaxNumber by their decimal digits
MaxNumber == 12
SmallNumbers == {DecimalDigits(n) : n \in 0..MaxNumber}
\* whole numbers around 2^53 (2^53 - 1, 2^53, ..., 2^53 + 3) and the largest
\* one of 16 digits
LargeNumbers ==
  {<<9, 0, 0, 7, 1, 9, 9, 2, 5, 4, 7, 4, 0, 9, 9, 1>>,
   TwoTo53,
   <<9, 0, 0, 7, 1, 9, 9, 2, 5, 4, 7, 4, 0, 9, 9, 3>>,
   <<9, 0, 0, 7, 1, 9, 9, 2, 5, 4, 7, 4, 0, 9, 9, 4>>,
   <<9, 0, 0, 7, 1, 9, 9, 2, 5, 4, 7, 4, 0, 9, 9, 5>>,
   <<9, 9, 9, 9, 9, 9, 9, 9, 9, 9, 9, 9, 9, 9, 9, 9>>}

\* the decimal numeral of a whole number
Numeral(v) == [i \in DOMAIN v |-> Zero + v[i]]
\* strings that are the numeral of no whole number: "", "03", "00", "3.4",
\* "1x", " 3"
NoNumerals ==
  {<<>>, <<Zero, Zero + 3>>, <<Zero, Zero>>, <<Zero + 3, Dot, Zero + 4>>,
   <<Zero + 1, 120>>, <<32, Zero + 3>>}

\* the strings tried for the three components of a walletAddress
ShardStrings == {Numeral(<<0>>), Numeral(<<1, 2>>), <<Zero, Zero + 1>>}
RealmStrings == {Numeral(<<0>>), <<>>}
NumStrings ==
  {Numeral(v) : v \in SmallNumbers \cup LargeNumbers} \cup NoNumerals

\* the canonical string of three numerals
Canonical(parts) == parts[1] \o <<Dot>> \o parts[2] \o <<Dot>> \o parts[3]

\* --- the checksum as specified: 5 letters, the base-26 digits of
\* cp = (c * 1000003) mod 26^5, most significant first, taken off cp by
\* integer division, c = ((((len mod 5) * 11 + sd0) * 11 + sd1) * 26^3
\* + sd + sh) mod 26^5
RECURSIVE PowMod(_, _, _)
\* b^e mod n, for b * n below 2^31
PowMod(b, e, n) == IF e = 0 THEN 1 ELSE (b * PowMod(b, e - 1, n)) % n

RECURSIVE SumMod(_, _, _)
\* the sum of f[i] over the i in S, mod n
SumMod(f, S, n) ==
  IF S = {} THEN 0
  ELSE LET i == First(S) IN (f[i] + SumMod(f, S \ {i}, n)) % n

RECURSIVE Base26(_, _)
\* the last k base-26 digits of cp as letters, most significant first
Base26(cp, k) ==
  IF k = 0 THEN <<>> ELSE Append(Base26(cp \div 26, k - 1), ascii_a + (cp % 26))

\* the code of a network: the value of its two hex digits
NetworkCode(chainId) ==
  CASE chainId = Mainnet -> 0
    [] chainId \in {Testnet, Devnet} -> 1
    [] chainId = Previewnet -> 2

computeChecksum(chainId, canonical) ==
  LET n == Len(canonical)
      d == [i \in 1..n |-> IF canonical[i] = Dot THEN 10 ELSE canonical[i] - Zero]
      sd0 == SumMod(d, {i \in 1..n : (i - 1) % 2 = 0}, 11)
      sd1 == SumMod(d, {i \in 1..n : (i - 1) % 2 = 1}, 11)
      sd == SumMod([i \in 1..n |-> (d[i] * PowMod(31, n - i, 26 * 26 * 26))
                                      % (26 * 26 * 26)],
                   1..n, 26 * 26 * 26)
      \* the network's code is the first of seven bytes, the other six are 0
      sh == (NetworkCode(chainId) * PowMod(31, 6, Pow26(5))) % Pow26(5)
      c == ((((n % 5) * 11 + sd0) * 11 + sd1) * (26 * 26 * 26) + sd + sh) % Pow26(5)
      cp == MulMod(c, 1000003, Pow26(5))
  IN Base26(cp, 5)

\* the suffixes tried after "-": the checksum as specified of the canonical
\* string, and "aaaaa", "aaaa", "Aaaaa", "aaaaaa"
Suffixes(chainId, parts) ==
  {computeChecksum(chainId, Canonical(parts)),
   <<ascii_a, ascii_a, ascii_a, ascii_a, ascii_a>>,
   <<ascii_a, ascii_a, ascii_a, ascii_a>>,
   <<65, ascii_a, ascii_a, ascii_a, ascii_a>>,
   <<ascii_a, ascii_a, ascii_a, ascii_a, ascii_a, ascii_a>>}

\* the walletAddress string of an input
AddressOf(in) ==
  Canonical(in.parts) \o (IF in.given THEN <<Hyphen>> \o in.suffix ELSE <<>>)

\* a chain and a walletAddress string are drawn; no request is made
InitAddress ==
  /\ regime = "serial"
  /\ options = [anonymous |-> TRUE, autoSignUp |-> FALSE]
  /\ now = 0
  /\ ticks = 0
  /\ verification = {}
  /\ walletAddress = {}
  /\ user = {}
  /\ account = {}
  /\ transport = NothingSent
  /\ session = {}
  /\ issued = 0
  /\ started = 0
  /\ req = [r \in Requests |-> Idle]
  /\ \E chainId \in HederaChainId, shard \in ShardStrings, realm \in RealmStrings,
        num \in NumStrings, given \in BOOLEAN :
       \E suffix \in (IF given THEN Suffixes(chainId, <<shard, realm, num>>)
                      ELSE {<<>>}) :
         parsed = [NothingParsed EXCEPT !.chainId = chainId,
                                        !.parts = <<shard, realm, num>>,
                                        !.given = given, !.suffix = suffix]

\* toChecksumAddress(chainId, address) is called
CallToChecksumAddress ==
  /\ ~parsed.called
  /\ parsed' = [parsed EXCEPT !.called = TRUE,
                  !.result = toChecksumAddress(parsed.chainId, AddressOf(parsed))]
  /\ UNCHANGED <<transport, regime, options, now, ticks, verification, walletAddress, account,
                 user, session, issued, started, req>>

\* an endpoint parses a body with this walletAddress (the four endpoints have
\* the same pattern)
ParseBody ==
  /\ parsed.body = ""
  /\ parsed' = [parsed EXCEPT !.body =
                  IF walletAddressSchema(AddressOf(parsed)) THEN "accepted"
                  ELSE "rejected"]
  /\ UNCHANGED <<transport, regime, options, now, ticks, verification, walletAddress, account,
                 user, session, issued, started, req>>

\* the getSiwhNonce endpoint is called with the walletAddress string and the
\* chainId drawn: the body schema, toChecksumAddress, options.getNonce() and
\* createVerificationValue, then the response { nonce }
getSiwhNonceOfBody(r) ==
  /\ New(r)
  /\ started' = started + 1
  /\ LET rawWalletAddress == AddressOf(parsed)
         chainId == parsed.chainId
         checksumResult == toChecksumAddress(chainId, rawWalletAddress)
         body == [Idle EXCEPT !.op = "nonce", !.chainId = chainId]
     IN IF ~walletAddressSchema(rawWalletAddress)
          THEN /\ req' = [req EXCEPT ![r] = Ended(body, "INVALID_BODY")]
               /\ UNCHANGED <<issued, verification>>
        ELSE IF ~checksumResult.isValid
          THEN /\ req' = [req EXCEPT ![r] = Ended(body, "INVALID_WALLET_ADDRESS")]
               /\ UNCHANGED <<issued, verification>>
        ELSE /\ issued' = issued + 1
             /\ verification' =
                  createVerificationValue(issued + 1,
                    Identifier(checksumResult.withChecksumFormat, chainId),
                    getNonce, now + 15 * 60 * 1000)
             /\ req' = [req EXCEPT ![r] =
                  Ended([body EXCEPT !.address = checksumResult.withChecksumFormat,
                                     !.nonce = getNonce],
                        "NONCE_ISSUED")]
  /\ UNCHANGED <<transport, parsed, regime, options, now, ticks, walletAddress, account,
                 user, session>>

NextAddress ==
  \/ CallToChecksumAddress
  \/ ParseBody
  \/ \E r \in Requests : getSiwhNonceOfBody(r)
  \/ \E d \in TickMs : Tick(d)

SpecAddress == InitAddress /\ [][NextAddress]_vars

\* ------------------------------------------------- utils/signature.ts
\* A signature is a Uint8Array: a sequence of numbers 0..255. Its base64 text
\* is a sequence of character codes.
MaxBytes == 3

\* byte values whose sextets fall in each range of the base64 alphabet
\* (letters, digits, "+" and "/")
SomeBytes == {0, 65, 251, 255}

Platforms == {"node", "browser"}

\* "="
Pad == 61

\* the base64 alphabet: A-Z a-z 0-9 + /
Base64Char(i) ==
  CASE i < 26 -> 65 + i
    [] i < 52 -> ascii_a + (i - 26)
    [] i < 62 -> Zero + (i - 52)
    [] i = 62 -> 43
    [] OTHER  -> 47

\* the sextet of a character of the alphabet, -1 for any other character
Base64Value(ch) ==
  CASE ch \in 65..90        -> ch - 65
    [] ch \in ascii_a..122  -> (ch - ascii_a) + 26
    [] ch \in Zero..57      -> (ch - Zero) + 52
    [] ch = 43              -> 62
    [] ch = 47              -> 63
    [] OTHER                -> -1

\* three bytes make four characters; a tail of one or two bytes is padded
RECURSIVE Base64Encode(_)
Base64Encode(b) ==
  CASE Len(b) = 0 -> <<>>
    [] Len(b) = 1 ->
         <<Base64Char(b[1] \div 4), Base64Char((b[1] % 4) * 16), Pad, Pad>>
    [] Len(b) = 2 ->
         <<Base64Char(b[1] \div 4),
           Base64Char((b[1] % 4) * 16 + (b[2] \div 16)),
           Base64Char((b[2] % 16) * 4), Pad>>
    [] OTHER ->
         <<Base64Char(b[1] \div 4),
           Base64Char((b[1] % 4) * 16 + (b[2] \div 16)),
           Base64Char((b[2] % 16) * 4 + (b[3] \div 64)),
           Base64Char(b[3] % 64)>> \o Base64Encode(SubSeq(b, 4, Len(b)))

\* a decoder that drops a tail of fewer than four sextets
RECURSIVE SextetsToBytes_WholeGroups(_)
SextetsToBytes_WholeGroups(sx) ==
  IF Len(sx) < 4 THEN <<>>
  ELSE <<sx[1] * 4 + (sx[2] \div 16),
         (sx[2] % 16) * 16 + (sx[3] \div 4),
         (sx[3] % 4) * 64 + sx[4]>> \o SextetsToBytes_WholeGroups(SubSeq(sx, 5, Len(sx)))

\* four sextets make three bytes; a tail of three makes two bytes, a tail
\* of two makes one, and the bits left over are dropped
RECURSIVE SextetsToBytes(_)
SextetsToBytes(sx) ==
  CASE Len(sx) < 2 -> <<>>
    [] Len(sx) = 2 -> <<sx[1] * 4 + (sx[2] \div 16)>>
    [] Len(sx) = 3 ->
         <<sx[1] * 4 + (sx[2] \div 16), (sx[2] % 16) * 16 + (sx[3] \div 4)>>
    [] OTHER ->
         <<sx[1] * 4 + (sx[2] \div 16),
           (sx[2] % 16) * 16 + (sx[3] \div 4),
           (sx[3] % 4) * 64 + sx[4]>> \o SextetsToBytes(SubSeq(sx, 5, Len(sx)))

\* the characters of s before its first "="
RECURSIVE BeforePad(_)
BeforePad(s) ==
  IF s = <<>> \/ Head(s) = Pad THEN <<>> ELSE <<Head(s)>> \o BeforePad(Tail(s))

\* Buffer.from(signature).toString("base64")
BufferToBase64(bytes) == Base64Encode(bytes)

\* String.fromCharCode(...signature): one code unit per byte
fromCharCodes(bytes) == [i \in 1..Len(bytes) |-> bytes[i] % 65536]

InvalidCharacterError == <<-1>>

\* btoa(binary): throws on a code unit above 255
btoa(binary) ==
  IF \E i \in 1..Len(binary) : binary[i] > 255 THEN InvalidCharacterError
  ELSE Base64Encode(binary)

\* Buffer.from(signature, "base64"): reads up to the first "=", passes over
\* characters outside the alphabet ("-" and "_" count as "+" and "/")
NodeValue(ch) ==
  CASE ch = Hyphen -> 62
    [] ch = 95     -> 63
    [] OTHER       -> Base64Value(ch)

BufferFromBase64(s) ==
  LET kept == SelectSeq(BeforePad(s), LAMBDA ch : NodeValue(ch) >= 0)
  IN  SextetsToBytes([i \in 1..Len(kept) |-> NodeValue(kept[i])])

IsAsciiWhitespace(ch) == ch \in {9, 10, 12, 13, 32}

\* atob(signature): whitespace is removed, one or two "=" ending a text
\* of a multiple of four characters are removed, and what is left must be
\* characters of the alphabet, not one more than a multiple of four
atob(s) ==
  LET t == SelectSeq(s, LAMBDA ch : ~IsAsciiWhitespace(ch))
      n == Len(t)
      u == IF n > 0 /\ n % 4 = 0 /\ t[n] = Pad
           THEN (IF t[n - 1] = Pad THEN SubSeq(t, 1, n - 2) ELSE SubSeq(t, 1, n - 1))
           ELSE t
  IN  IF Len(u) % 4 = 1 \/ \E i \in 1..Len(u) : Base64Value(u[i]) < 0
      THEN InvalidCharacterError
      ELSE SextetsToBytes([i \in 1..Len(u) |-> Base64Value(u[i])])

\* binary.charCodeAt(i) stored in a Uint8Array
charCodes(binary) == [i \in 1..Len(binary) |-> binary[i] % 256]

\* signatureToBase64(signature), by the branch the platform takes
\* (typeof Buffer !== "undefined" on node)
signatureToBase64On(platform, signature) ==
  IF platform = "node" THEN BufferToBase64(signature)
  ELSE btoa(fromCharCodes(signature))

\* base64ToSignature(signature), by the branch the platform takes
base64ToSignatureOn(platform, signature) ==
  IF platform = "node" THEN BufferFromBase64(signature)
  ELSE LET binary == atob(signature)
       IN  IF binary = InvalidCharacterError THEN InvalidCharacterError
           ELSE charCodes(binary)

ByteSeqs == UNION {[1..n -> SomeBytes] : n \in 0..MaxBytes}

\* a signature is drawn; no request is made
InitSignature ==
  /\ regime = "serial"
  /\ options = [anonymous |-> TRUE, autoSignUp |-> FALSE]
  /\ now = 0
  /\ ticks = 0
  /\ verification = {}
  /\ walletAddress = {}
  /\ user = {}
  /\ account = {}
  /\ session = {}
  /\ issued = 0
  /\ started = 0
  /\ req = [r \in Requests |-> Idle]
  /\ parsed = NothingParsed
  /\ \E bytes \in ByteSeqs : transport = [NothingSent EXCEPT !.bytes = bytes]

\* signatureToBase64(signature) is called on a platform
signatureToBase64(platform) ==
  /\ transport.encodedOn = ""
  /\ transport' = [transport EXCEPT !.encodedOn = platform,
                     !.base64 = signatureToBase64On(platform, transport.bytes)]
  /\ UNCHANGED <<parsed, regime, options, now, ticks, verification, walletAddress,
                 account, user, session, issued, started, req>>

\* base64ToSignature(signature) is called, on the same platform or the other,
\* with the text signatureToBase64 returned
base64ToSignature(platform) ==
  /\ transport.encodedOn # ""
  /\ transport.decodedOn = ""
  /\ transport' = [transport EXCEPT !.decodedOn = platform,
                     !.result = base64ToSignatureOn(platform, transport.base64)]
  /\ UNCHANGED <<parsed, regime, options, now, ticks, verification, walletAddress,
                 account, user, session, issued, started, req>>

NextSignature ==
  \/ \E platform \in Platforms : signatureToBase64(platform)
  \/ \E platform \in Platforms : base64ToSignature(platform)

SpecSignature == InitSignature /\ [][NextSignature]_vars

\* ---------------------------------------------------------------- responses
\* the HTTP status of the APIError a handler throws (by its status field, or
\* by its name when it gives none), 200 for a response it returns
HttpStatus(status) ==
  CASE status \in {"INVALID_OR_EXPIRED_NONCE", "INVALID_SIGNATURE", "NOT_SIGNED_IN",
                   "USER_NOT_FOUND"} -> 401
    [] status \in {"ANONYMOUS_NOT_ALLOWED"} -> 403
    [] status \in {"ALREADY_LINKED_TO_ANOTHER_ACCOUNT"} -> 409
    [] status \in {"USER_ALREADY_EXISTS"} -> 422
    [] status \in {"INTERNAL_SERVER_ERROR"} -> 500
    [] status \in {"EMAIL_REQUIRED", "FAILED_TO_CREATE_SESSION",
                   "ALREADY_LINKED_TO_YOUR_ACCOUNT", "FAILED_TO_UNLINK_LAST_ACCOUNT",
                   "ACCOUNT_NOT_FOUND"} -> 400
    [] OTHER -> 200

\* the message of the APIError a handler throws ("" for a response it
\* returns); a message taken from BASE_ERROR_CODES is given by its key
Message(status) ==
  CASE status = "EMAIL_REQUIRED" -> "Email is required when anonymous is disabled."
    [] status = "INVALID_OR_EXPIRED_NONCE" -> "Invalid or expired nonce"
    [] status = "INVALID_SIGNATURE" -> "Invalid SIWH signature"
    [] status = "USER_NOT_FOUND" -> "USER_NOT_FOUND"
    [] status = "USER_ALREADY_EXISTS" -> "USER_ALREADY_EXISTS_USE_ANOTHER_EMAIL"
    [] status = "FAILED_TO_CREATE_SESSION" -> "FAILED_TO_CREATE_SESSION"
    [] status = "INTERNAL_SERVER_ERROR"
         -> "Something went wrong. Please try again later."
    [] status = "NOT_SIGNED_IN" -> "You must be signed in to link a wallet"
    [] status = "ANONYMOUS_NOT_ALLOWED"
         -> "Anonymous users cannot link wallets. Please create a permanent account first."
    [] status = "ALREADY_LINKED_TO_YOUR_ACCOUNT"
         -> "This wallet is already linked to your account"
    [] status = "ALREADY_LINKED_TO_ANOTHER_ACCOUNT"
         -> "This wallet is already linked to another account"
    [] status = "FAILED_TO_UNLINK_LAST_ACCOUNT" -> "FAILED_TO_UNLINK_LAST_ACCOUNT"
    [] status = "ACCOUNT_NOT_FOUND" -> "ACCOUNT_NOT_FOUND"
    [] OTHER -> ""

\* what the caller sees of the way a request ended
Response(q) == [status |-> HttpStatus(q.status), message |-> Message(q.status)]

\* ------------------------------------------------- what the properties read
\* the verification identifier a request works on
KeyOf(q) == Identifier(q.address, q.chainId)

\* the request passed the nonce step: it was handed a nonce, the verifier
\* accepted and the nonce delete was done
Accepted(q) ==
  /\ q.op \in {"verify", "link"}
  /\ q.nonce # 0
  /\ q.pc \notin {"verifyMessage", "deleteVerificationValue"}
  /\ q.status # "INVALID_SIGNATURE"

\* request r arrives in this step
Starts(r) == started' = started + 1 /\ req'[r] # req[r]

\* request r is handed a nonce (its lookup passed) in this step
Handed(r) == Starts(r) /\ req'[r].pc = "verifyMessage"

\* the errors of the checks a handler makes before it looks the nonce up
InputErrors == {"EMAIL_REQUIRED", "NOT_SIGNED_IN", "ANONYMOUS_NOT_ALLOWED"}

\* the walletAddress rows of the pair (address, chainId)
WalletRows(address, chainId) ==
  {x \in walletAddress : x.address = address /\ x.chainId = chainId}

\* ------------------------------------------------------------------- claims
\* C1: of the requests that run concurrently against one live nonce, exactly
\* one passes the nonce step: no two requests are accepted with the same nonce.
C1_ExactlyOnePassesNonceStep ==
  \A r, o \in Requests :
    (r # o /\ Accepted(req[r]) /\ Accepted(req[o])) => req[r].nonce # req[o].nonce

\* C2: nonce single-use: once a request has been accepted with nonce N (verifier
\* accepted, nonce deleted), no step lets another request become accepted with N.
C2_NonceSingleUse ==
  [][\A r, o \in Requests :
       (/\ r # o
        /\ Accepted(req[o])
        /\ ~Accepted(req[r])
        /\ Accepted(req'[r]))
       => req'[r].nonce # req[o].nonce]_vars

\* C3: one outstanding nonce per key: a later nonce of a key replaces the
\* earlier ones, so a request is never handed a nonce issued before one that a
\* request of the same key was handed already (nonce values grow with issue).
C3_SecondNonceReplacesFirst ==
  [][\A r, o \in Requests :
       (/\ Handed(r)
        /\ req[o].nonce # 0
        /\ KeyOf(req[o]) = KeyOf(req'[r]))
       => req[o].nonce <= req'[r].nonce]_vars

\* C4: nonce expiry: a nonce is stored with expiry 15 minutes after its issue;
\* no request is handed a nonce whose expiry has passed; and a verify or link
\* that passes its input checks while every nonce of its key has expired ends
\* at once with the invalid-or-expired-nonce error (401): the verifier is not
\* invoked and no identity, credential, linked-auth record or session changes.
C4_NonceExpiry ==
  [][/\ \A v \in verification' \ verification : v.expiresAt = now + 15 * 60 * 1000
     /\ \A r \in Requests :
          Handed(r) => now <= VerificationRow(req'[r].verification).expiresAt
     /\ \A r \in Requests :
          (/\ Starts(r)
           /\ req'[r].op \in {"verify", "link"}
           /\ req'[r].status \notin InputErrors
           /\ \E v \in verification : v.identifier = KeyOf(req'[r])
           /\ \A v \in verification :
                v.identifier = KeyOf(req'[r]) => now > v.expiresAt)
          => /\ req'[r].pc = "done"
             /\ req'[r].status = "INVALID_OR_EXPIRED_NONCE"
             /\ HttpStatus(req'[r].status) = 401
             /\ UNCHANGED <<verification, walletAddress, account, user, session>>]_vars

\* a request was refused for its nonce 901 s after the issue of a nonce of its
\* key that is still stored, expired and never consumed
C4_Witness ==
  \E r \in Requests, v \in verification :
    /\ req[r].op \in {"verify", "link"}
    /\ req[r].status = "INVALID_OR_EXPIRED_NONCE"
    /\ v.identifier = KeyOf(req[r])
    /\ v.expiresAt = 15 * 60 * 1000
    /\ now = 901 * 1000

\* C5: a failed verification preserves the nonce: the verifier's step either
\* ends the request with the signature error (401) and leaves the verification
\* table as it is, or goes on to the nonce delete; and a verify or link that
\* passes its input checks while the latest nonce of its key is stored and not
\* expired is handed that nonce, so the retry passes the nonce step.
C5_FailedVerificationPreservesNonce ==
  [][\A r \in Requests :
       /\ (req[r].pc = "verifyMessage" /\ req'[r] # req[r])
          => \/ /\ req'[r].pc = "done"
                /\ req'[r].status = "INVALID_SIGNATURE"
                /\ HttpStatus(req'[r].status) = 401
                /\ verification' = verification
             \/ req'[r].pc = "deleteVerificationValue"
       /\ (/\ Starts(r)
           /\ req'[r].op \in {"verify", "link"}
           /\ req'[r].status \notin InputErrors
           /\ ~NonceRejected(findVerificationValue(KeyOf(req'[r]))))
          => /\ req'[r].pc = "verifyMessage"
             /\ req'[r].nonce =
                  VerificationRow(findVerificationValue(KeyOf(req'[r]))).value]_vars

\* a request failed with the signature error and the nonce it was handed is
\* still the stored, unexpired, latest nonce of its key
C5_Witness ==
  \E r \in Requests :
    /\ req[r].status = "INVALID_SIGNATURE"
    /\ LET found == findVerificationValue(KeyOf(req[r]))
       IN /\ ~NonceRejected(found)
          /\ VerificationRow(found).value = req[r].nonce

\* C6: in every reachable state the walletAddress records of one
\* (address, chainId) pair belong to one identity.
C6_OneIdentityPerWallet ==
  \A x, y \in walletAddress :
    (x.address = y.address /\ x.chainId = y.chainId) => x.userId = y.userId

\* C7: cross-chain resolution: when a verify for (A, hedera:testnet) makes its
\* lookup by address alone while an identity U holds the credential of
\* (A, hedera:mainnet), the lookup finds U; and a verify for (A, hedera:testnet)
\* creates no identity while that credential exists.
C7_CrossChainResolution ==
  [][\A r \in Requests, a \in RawAddresses, x \in walletAddress :
       (/\ req[r].op = "verify"
        /\ req[r].chainId = Testnet
        /\ req[r].address = WalletAddressOf[Testnet, a]
        /\ x.chainId = Mainnet
        /\ x.address = WalletAddressOf[Mainnet, a]
        /\ req'[r] # req[r])
       => /\ req[r].pc = "findAnyWalletAddress"
             => (req'[r].pc = "findUser" /\ req'[r].candidate = x.userId)
          /\ user' = user]_vars

\* C8: unlink of an owned wallet: an unlink by a signed-in identity that holds
\* the walletAddress record of (A, c) and its "siwh" account, and has another
\* account besides, is not answered with ACCOUNT_NOT_FOUND.
C8_UnlinkOwnedWallet ==
  [][\A r \in Requests :
       (/\ Starts(r)
        /\ req'[r].op = "unlink"
        /\ req'[r].sessionUser # 0
        /\ \E x \in WalletRows(req'[r].address, req'[r].chainId) :
             x.userId = req'[r].sessionUser
        /\ \E a \in findAccounts(req'[r].sessionUser) :
             /\ a.providerId = "siwh"
             /\ a.accountId = SiwhAccountId(req'[r].address, req'[r].chainId)
        /\ Cardinality(findAccounts(req'[r].sessionUser)) > 1)
       => req'[r].status # "ACCOUNT_NOT_FOUND"]_vars

\* C9: last-credential protection: an unlink by a signed-in identity that has
\* exactly one account ends, when allowUnlinkingAll is not set, with
\* FAILED_TO_UNLINK_LAST_ACCOUNT (400) and deletes nothing; with
\* allowUnlinkingAll set it does not end with that error.
C9_LastCredentialProtection ==
  [][\A r \in Requests :
       (/\ Starts(r)
        /\ req'[r].op = "unlink"
        /\ req'[r].sessionUser # 0
        /\ Cardinality(findAccounts(req'[r].sessionUser)) = 1)
       => IF ~req'[r].allowUnlinkingAll
            THEN /\ req'[r].pc = "done"
                 /\ req'[r].status = "FAILED_TO_UNLINK_LAST_ACCOUNT"
                 /\ HttpStatus(req'[r].status) = 400
                 /\ UNCHANGED <<account, walletAddress>>
            ELSE req'[r].status # "FAILED_TO_UNLINK_LAST_ACCOUNT"]_vars

\* an unlink without the override was refused for the last account of an
\* identity, which still has exactly one account
C9_Witness ==
  \E r \in Requests :
    /\ req[r].op = "unlink"
    /\ req[r].status = "FAILED_TO_UNLINK_LAST_ACCOUNT"
    /\ ~req[r].allowUnlinkingAll
    /\ Cardinality(findAccounts(req[r].sessionUser)) = 1

\* C10: linking conflicts: a link that passed the nonce step and the verifier
\* and finds walletAddress records of its (address, chainId) ends there and
\* creates or changes no walletAddress or account row; it ends with "already
\* linked to your account" (400) when the records belong to the caller and
\* with "already linked to another account" (409) when they belong to others.
C10_LinkingConflicts ==
  [][\A r \in Requests :
       LET rows == WalletRows(req[r].address, req[r].chainId)
       IN (/\ At(r, "link", "findWalletAddress")
           /\ req'[r] # req[r]
           /\ rows # {})
          => /\ req'[r].pc = "done"
             /\ UNCHANGED <<walletAddress, account>>
             /\ (\A x \in rows : x.userId = req[r].sessionUser)
                => /\ req'[r].status = "ALREADY_LINKED_TO_YOUR_ACCOUNT"
                   /\ HttpStatus(req'[r].status) = 400
             /\ (\A x \in rows : x.userId # req[r].sessionUser)
                => /\ req'[r].status = "ALREADY_LINKED_TO_ANOTHER_ACCOUNT"
                   /\ HttpStatus(req'[r].status) = 409]_vars

\* a link that passed the nonce step ended with the conflict: the record of
\* its (address, chainId) belongs to another identity
C10_Witness ==
  \E r \in Requests :
    /\ req[r].op = "link"
    /\ Accepted(req[r])
    /\ req[r].status = "ALREADY_LINKED_TO_ANOTHER_ACCOUNT"
    /\ \E x \in WalletRows(req[r].address, req[r].chainId) :
         x.userId # req[r].sessionUser

\* the identities that signed up by other means, before the first request
SeededUsers == {1, 2}

\* an identity has its primary walletAddress row and its "siwh" account
HasCredential(userId) ==
  /\ \E x \in walletAddress : x.userId = userId /\ x.isPrimary
  /\ \E a \in account : a.userId = userId /\ a.providerId = "siwh"

\* request r is the sign-up that created identity userId and is still at work
CreatorOf(r, userId) ==
  /\ req[r].op = "verify"
  /\ req[r].signUp
  /\ req[r].userId = userId
  /\ Running(r)

\* C11: sign-up is transactional: while another request is at work, every
\* identity created by verify has its primary walletAddress row and its "siwh"
\* account, and every walletAddress row has its identity.
C11_SignUpTransactional ==
  \A u \in user :
    (/\ u.id \notin SeededUsers
     /\ \E o \in Requests : Running(o) /\ ~CreatorOf(o, u.id))
    => /\ HasCredential(u.id)
       /\ \A x \in walletAddress : \E v \in user : v.id = x.userId

\* C12: first-ever verify with autoSignUp: a verify that passed the nonce step
\* and finds no walletAddress row of its address goes on to sign-up when
\* autoSignUp is set.  A request that signs up creates no session and sets no
\* cookie; it creates one user row (in the step that makes it a sign-up), at
\* most one row per step after that: a primary walletAddress row of its
\* identity for its (address, chainId) and accounts of its identity, the
\* "siwh" one with accountId "address:chainId".  When it ends as a sign-up
\* (token null, 200) its identity has one user row, exactly one primary
\* walletAddress row, which is of its (address, chainId), and its "siwh"
\* account.
C12_FirstVerifySignsUp ==
  [][\A r \in Requests :
       (req[r].op = "verify" /\ req'[r] # req[r])
       => /\ (/\ req[r].pc = "findAnyWalletAddress"
              /\ options.autoSignUp
              /\ \A x \in walletAddress : x.address # req[r].address)
             => req'[r].pc = "findUserByEmail"
          /\ req'[r].signUp
             => /\ session' = session
                /\ ~req'[r].cookie
                /\ user \subseteq user'
                /\ user' # user
                   => /\ ~req[r].signUp
                      /\ {u.id : u \in user' \ user} = {req'[r].userId}
                      /\ Cardinality(user' \ user) = 1
                /\ walletAddress \subseteq walletAddress'
                /\ Cardinality(walletAddress' \ walletAddress) <= 1
                /\ \A x \in walletAddress' \ walletAddress :
                     /\ x.userId = req'[r].userId
                     /\ x.address = req'[r].address
                     /\ x.chainId = req'[r].chainId
                     /\ x.isPrimary
                /\ account \subseteq account'
                /\ Cardinality(account' \ account) <= 1
                /\ \A a \in account' \ account :
                     /\ a.userId = req'[r].userId
                     /\ a.providerId = "siwh"
                        => a.accountId =
                             SiwhAccountId(req'[r].address, req'[r].chainId)
          /\ req'[r].status = "SIGNED_UP"
             => /\ req'[r].signUp
                /\ HttpStatus(req'[r].status) = 200
                /\ Cardinality({u \in user' : u.id = req'[r].userId}) = 1
                /\ Cardinality({x \in walletAddress' :
                      x.userId = req'[r].userId /\ x.isPrimary}) = 1
                /\ \E x \in walletAddress' :
                      /\ x.userId = req'[r].userId
                      /\ x.isPrimary
                      /\ x.address = req'[r].address
                      /\ x.chainId = req'[r].chainId
                /\ \E a \in account' :
                      /\ a.userId = req'[r].userId
                      /\ a.providerId = "siwh"
                      /\ a.accountId =
                           SiwhAccountId(req'[r].address, req'[r].chainId)]_vars

\* with autoSignUp a verify ended as a sign-up: its identity exists with its
\* primary walletAddress row and has no session
C12_Witness ==
  \E r \in Requests :
    /\ options.autoSignUp
    /\ req[r].op = "verify"
    /\ req[r].status = "SIGNED_UP"
    /\ req[r].userId \notin SeededUsers
    /\ HasCredential(req[r].userId)
    /\ \A x \in session : x.userId # req[r].userId

\* C13: user not found: without autoSignUp, a verify that finds no
\* walletAddress row of its address either ends with USER_NOT_FOUND (401) or
\* was sent with isSignUp, and no verify goes on to sign-up without one of the
\* two; the step that ends with USER_NOT_FOUND changes no user, walletAddress,
\* account or session row, and the request has created none before.
C13_UserNotFound ==
  [][\A r \in Requests :
       (req[r].op = "verify" /\ req'[r] # req[r])
       => /\ (/\ req[r].pc = "findAnyWalletAddress"
              /\ ~options.autoSignUp
              /\ \A x \in walletAddress : x.address # req[r].address)
             => \/ req'[r].status = "USER_NOT_FOUND"
                \/ req'[r].pc = "findUserByEmail" /\ req'[r].isSignUp
          /\ req'[r].pc = "findUserByEmail"
             => (options.autoSignUp \/ req'[r].isSignUp)
          /\ req'[r].status = "USER_NOT_FOUND"
             => /\ req'[r].pc = "done"
                /\ HttpStatus(req'[r].status) = 401
                /\ ~options.autoSignUp
                /\ ~req'[r].signUp
                /\ req'[r].userId = 0
                /\ UNCHANGED <<user, walletAddress, account, session>>
          /\ (~req'[r].signUp /\ req'[r].userId = 0)
             => UNCHANGED <<user, walletAddress, account, session>>]_vars

\* without autoSignUp a verify that passed the nonce step ended with
\* USER_NOT_FOUND; no walletAddress row of its address exists
C13_Witness ==
  \E r \in Requests :
    /\ ~options.autoSignUp
    /\ req[r].op = "verify"
    /\ Accepted(req[r])
    /\ req[r].status = "USER_NOT_FOUND"
    /\ \A x \in walletAddress : x.address # req[r].address

\* C14: no two identities share an email when one of them was created by
\* verify (whose sign-up path refuses an email that an identity has).
C14_NoSharedEmail ==
  \A u, v \in user :
    (u.email = v.email /\ u.id \notin SeededUsers) => u = v

\* C15: email required: with anonymous = false a verify sent without an email
\* ends at once with EMAIL_REQUIRED (400): it is handed no nonce, the verifier
\* is not invoked, and the verification, user, walletAddress, account and
\* session tables are unchanged; no other verify ends with that error.
C15_EmailRequired ==
  [][\A r \in Requests :
       (Starts(r) /\ req'[r].op = "verify")
       => /\ (~options.anonymous /\ req'[r].userEmail.given = NoEmail)
             => /\ req'[r].pc = "done"
                /\ req'[r].status = "EMAIL_REQUIRED"
                /\ HttpStatus(req'[r].status) = 400
                /\ req'[r].nonce = 0
                /\ UNCHANGED <<verification, user, walletAddress, account, session>>
          /\ req'[r].status = "EMAIL_REQUIRED"
             => (~options.anonymous /\ req'[r].userEmail.given = NoEmail)]_vars

\* a verify ended with EMAIL_REQUIRED while a nonce of its key is stored and
\* not expired
C15_Witness ==
  \E r \in Requests :
    /\ ~options.anonymous
    /\ req[r].op = "verify"
    /\ req[r].status = "EMAIL_REQUIRED"
    /\ ~NonceRejected(findVerificationValue(KeyOf(req[r])))

\* C16: linking requires a signed-in, non-anonymous identity: a link without a
\* session ends with NOT_SIGNED_IN (401) and a link of an anonymous identity
\* with ANONYMOUS_NOT_ALLOWED (403), in the step it arrives: it is handed no
\* nonce (no lookup result is used, the verifier is not reached), and the
\* verification, walletAddress and account tables are unchanged; a link of a
\* signed-in, non-anonymous identity ends with neither.
C16_LinkRequiresIdentity ==
  [][\A r \in Requests :
       (Starts(r) /\ req'[r].op = "link")
       => LET q == req'[r]
          IN /\ q.sessionUser = 0
                => /\ q.status = "NOT_SIGNED_IN"
                   /\ HttpStatus(q.status) = 401
             /\ (q.sessionUser # 0 /\ UserRow(q.sessionUser).isAnonymous)
                => /\ q.status = "ANONYMOUS_NOT_ALLOWED"
                   /\ HttpStatus(q.status) = 403
             /\ q.status \in {"NOT_SIGNED_IN", "ANONYMOUS_NOT_ALLOWED"}
                <=> (q.sessionUser = 0 \/ UserRow(q.sessionUser).isAnonymous)
             /\ q.status \in {"NOT_SIGNED_IN", "ANONYMOUS_NOT_ALLOWED"}
                => /\ q.pc = "done"
                   /\ q.nonce = 0
                   /\ q.verification = 0
                   /\ UNCHANGED <<verification, walletAddress, account, user,
                                  session>>]_vars

\* a link of the anonymous identity ended with ANONYMOUS_NOT_ALLOWED while a
\* nonce of its key is stored and not expired
C16_Witness ==
  \E r \in Requests :
    /\ req[r].op = "link"
    /\ req[r].status = "ANONYMOUS_NOT_ALLOWED"
    /\ UserRow(req[r].sessionUser).isAnonymous
    /\ ~NonceRejected(findVerificationValue(KeyOf(req[r])))

\* the numerals of the whole numbers tried
Numerals == {Numeral(v) : v \in SmallNumbers \cup LargeNumbers}

\* the drawn string is written as an address: three numerals of whole
\* numbers, and no suffix or one of five lower-case letters
WellFormed(in) ==
  /\ \A i \in 1..3 : in.parts[i] \in Numerals
  /\ in.given => in.suffix \in [1..5 -> ascii_a..(ascii_a + 25)]

\* C17: checksum acceptance policy: on every network, toChecksumAddress
\* answers an address written without suffix with status 2 and isValid true,
\* one whose five-letter suffix is the checksum it computed with status 3 and
\* isValid true, one whose suffix differs from it with status 1 and isValid
\* false, and a string that is not written as an address with status 0 and
\* isValid false.
C17_ChecksumAcceptancePolicy ==
  parsed.called
  => LET r == parsed.result
     IN IF WellFormed(parsed)
          THEN /\ r.status \in {1, 2, 3}
               /\ ~parsed.given => (r.status = 2 /\ r.isValid)
               /\ (parsed.given /\ parsed.suffix = r.correctChecksum)
                  => (r.status = 3 /\ r.isValid)
               /\ (parsed.given /\ parsed.suffix # r.correctChecksum)
                  => (r.status = 1 /\ ~r.isValid)
          ELSE r.status = 0 /\ ~r.isValid

\* toChecksumAddress found the suffix of an address right, on devnet
C17_Witness ==
  /\ parsed.called
  /\ parsed.chainId = Devnet
  /\ parsed.given
  /\ parsed.result.status = 3
  /\ parsed.result.givenChecksum = parsed.suffix

\* C18: an address whose checksum outcome is usable is accepted by the
\* endpoints: a walletAddress written with its right suffix passes the body
\* schema as the one written without suffix does, and only a string that
\* toChecksumAddress finds invalid is rejected.
C18_ValidSuffixAccepted ==
  (parsed.called /\ parsed.body # "")
  => (parsed.body = "accepted" <=> parsed.result.isValid)

\* C19: the checksum the code computes for a network and a canonical address
\* string is the specified one: five letters "a".."z", the base-26 digits,
\* most significant first, of cp = (c * 1000003) mod 26^5 taken off by
\* integer division, with c = ((((len mod 5) * 11 + sd0) * 11 + sd1) * 26^3
\* + sd + sh) mod 26^5.
C19_ChecksumAsSpecified ==
  (parsed.called /\ parsed.result.status # 0)
  => /\ parsed.result.correctChecksum \in [1..5 -> ascii_a..(ascii_a + 25)]
     /\ parsed.result.correctChecksum
          = computeChecksum(parsed.chainId, parsed.result.noChecksumFormat)

\* a checksum was computed on previewnet for an address of twenty characters
C19_Witness ==
  /\ parsed.called
  /\ parsed.chainId = Previewnet
  /\ parsed.result.status = 2
  /\ Len(parsed.result.noChecksumFormat) = 20

\* the whole number a numeral is written for, by its digits
ValueOf(numeral) == [i \in DOMAIN numeral |-> numeral[i] - Zero]

\* C20: round trip: the canonical string of three whole numbers, with or
\* without the checksum computed for it, parses to the same three numbers and
\* the same canonical string; a component written with a leading zero, other
\* than "0" itself, is not an address.
C20_RoundTrip ==
  parsed.called
  => LET r == parsed.result
         canonical == Canonical(parsed.parts)
     IN /\ (/\ \A i \in 1..3 : parsed.parts[i] \in Numerals
            /\ parsed.given => parsed.suffix = computeChecksum(parsed.chainId, canonical))
           => /\ r.status # 0
              /\ <<r.num1, r.num2, r.num3>>
                   = <<ValueOf(parsed.parts[1]), ValueOf(parsed.parts[2]),
                       ValueOf(parsed.parts[3])>>
              /\ r.noChecksumFormat = canonical
        /\ (\E i \in 1..3 : /\ Len(parsed.parts[i]) > 1
                             /\ parsed.parts[i][1] = Zero)
           => r.status = 0

\* C21: every failure of an awaited call of a collaborator (nonce generator,
\* verification store, verifier, user, account and walletAddress store,
\* session store, password hasher) during getSiwhNonce, verify, link or
\* unlink reaches the caller as the generic internal error (500): no request
\* in which a call threw ends with anything else.
C21_FailuresWrapped ==
  \A r \in Requests :
    req[r].thrown
    => /\ req[r].status = "INTERNAL_SERVER_ERROR"
       /\ HttpStatus(req[r].status) = 500

\* no nonce of the key can be used: none is stored (none was issued, or it
\* was consumed), or the one last stored is expired
Unusable(key) ==
  LET rows == {v \in verification : v.identifier = key}
  IN \/ rows = {}
     \/ \E v \in rows : (\A o \in rows : o.id <= v.id) /\ now > v.expiresAt

\* C22: uniform nonce failure: a verify or link that gets past its input
\* checks and finds no usable nonce for its key ends with one and the same
\* answer, 401 "Invalid or expired nonce", whatever the cause (nothing
\* stored, or the stored nonce expired) and whether or not the address has a
\* walletAddress row; it changes no table, and no request with a usable
\* nonce gets that answer.
C22_UniformNonceFailure ==
  [][\A r \in Requests :
       (/\ Starts(r)
        /\ req'[r].op \in {"verify", "link"}
        /\ req'[r].status \notin InputErrors)
       => /\ Unusable(KeyOf(req'[r]))
             => /\ req'[r].pc = "done"
                /\ Response(req'[r])
                     = [status |-> 401, message |-> "Invalid or expired nonce"]
                /\ UNCHANGED <<verification, walletAddress, account, user, session>>
          /\ req'[r].status = "INVALID_OR_EXPIRED_NONCE" <=> Unusable(KeyOf(req'[r]))]_vars

\* a request of an address that has a walletAddress row ended with the
\* nonce error because the stored nonce is expired
C22_Witness ==
  \E r \in Requests :
    /\ req[r].status = "INVALID_OR_EXPIRED_NONCE"
    /\ WalletRows(req[r].address, req[r].chainId) # {}
    /\ \E v \in verification : v.identifier = KeyOf(req[r]) /\ now > v.expiresAt

\* the "siwh" accounts of a walletAddress row: same identity, accountId
\* "address:chainId"
SiwhAccountsOf(x) ==
  {a \in account : /\ a.providerId = "siwh"
                   /\ a.userId = x.userId
                   /\ a.accountId = SiwhAccountId(x.address, x.chainId)}

\* the walletAddress rows of a "siwh" account
WalletRowsOf(a) ==
  {x \in walletAddress : /\ x.userId = a.userId
                         /\ SiwhAccountId(x.address, x.chainId) = a.accountId}

\* C23: in every state in which no request is in flight, walletAddress rows
\* and "siwh" accounts correspond one to one: every row has exactly one
\* "siwh" account of its identity with accountId "address:chainId", and every
\* "siwh" account has exactly one such row.
C23_CredentialAccountCorrespondence ==
  (\A r \in Requests : Free(r))
  => /\ \A x \in walletAddress : Cardinality(SiwhAccountsOf(x)) = 1
     /\ \A a \in account :
          a.providerId = "siwh" => Cardinality(WalletRowsOf(a)) = 1

\* the primary walletAddress rows of an identity
PrimaryRows(rows, userId) == {x \in rows : x.userId = userId /\ x.isPrimary}

\* C24: every identity has at most one walletAddress row with isPrimary true:
\* a row is created primary exactly when the request creating it is a verify
\* on its sign-up path, creating it for the identity it has just created; the
\* cross-chain path of verify and link create rows that are not primary.
C24_AtMostOnePrimary ==
  [][/\ \A u \in user' : Cardinality(PrimaryRows(walletAddress', u.id)) <= 1
     /\ \A x \in walletAddress' \ walletAddress :
          x.isPrimary
          <=> \E r \in Requests : /\ At(r, "verify", "createWalletAddress")
                                  /\ req[r].signUp
                                  /\ req[r].userId = x.userId
                                  /\ PrimaryRows(walletAddress, x.userId) = {}]_vars

\* an identity has a primary row and, from a later verify on another chain
\* or a link, a row that is not primary
C24_Witness ==
  \E x, y \in walletAddress :
    x.userId = y.userId /\ x.isPrimary /\ ~y.isPrimary

\* C25: an identity's first walletAddress row is primary: every identity
\* that has a row has a primary one, and it is the one created first (ids
\* grow with creation).
C25_FirstCredentialPrimary ==
  \A u \in user :
    LET rows == {x \in walletAddress : x.userId = u.id}
    IN rows # {}
       => \E x \in rows : x.isPrimary /\ \A y \in rows : x.id <= y.id

\* C26: a verify that has resolved an existing identity and asks the session
\* store for a session either gets one and goes on to set the cookie, or
\* gets none and ends with FAILED_TO_CREATE_SESSION (400): then no session is
\* stored, no cookie is set and no token is returned.  A cookie is set and a
\* token returned only after a session was created.
C26_SessionCreationFailed ==
  [][\A r \in Requests :
       (req[r].op = "verify" /\ req'[r] # req[r])
       => /\ req[r].pc = "createSession"
             => \/ /\ req'[r].pc = "setSessionCookie"
                   /\ [userId |-> req[r].userId] \in session'
                \/ /\ req'[r].pc = "done"
                   /\ req'[r].status = "FAILED_TO_CREATE_SESSION"
                   /\ HttpStatus(req'[r].status) = 400
                   /\ ~req'[r].cookie
                   /\ session' = session
          /\ req'[r].status = "FAILED_TO_CREATE_SESSION"
             => (req[r].pc = "createSession" /\ ~req[r].signUp /\ req[r].userId # 0)
          /\ (req'[r].cookie \/ req'[r].status = "SIGNED_IN")
             => (req[r].pc = "setSessionCookie"
                 /\ [userId |-> req[r].userId] \in session)]_vars

\* a verify of an existing identity ended with FAILED_TO_CREATE_SESSION, and
\* the identity has no session
C26_Witness ==
  \E r \in Requests :
    /\ req[r].status = "FAILED_TO_CREATE_SESSION"
    /\ \E u \in user : u.id = req[r].userId
    /\ ~req[r].cookie
    /\ [userId |-> req[r].userId] \notin session

\* C27: no step of getSiwhNonce, verify, link or unlink deletes or changes a
\* user row: the user table only grows, by one row at a time, and only in
\* the createUser step of a verify on its sign-up path.
C27_IdentitiesOnlyGrow ==
  [][/\ user \subseteq user'
     /\ user' # user
        => \E r \in Requests :
             /\ At(r, "verify", "createUser")
             /\ req'[r].signUp
             /\ \A u \in user : u.id # req'[r].userId
             /\ \E u \in user' : u.id = req'[r].userId /\ user' = user \cup {u}]_vars

\* verify has created an identity, a link has ended well, and the identities
\* of the initial state are as they were
C27_Witness ==
  /\ \E u \in user : u.id \notin SeededUsers
  /\ \E r \in Requests : req[r].status = "LINKED"
  /\ \A id \in SeededUsers : \E u \in user : u.id = id

OnTwinChain ==
  toChecksumAddress(IF parsed.chainId = Devnet THEN Testnet ELSE Devnet,
                    AddressOf(parsed))

\* C29: devnet shares testnet's ledger id: for every address,
\* toChecksumAddress computes the same checksum and the same with-checksum
\* form on hedera:devnet as on hedera:testnet (and finds the same addresses
\* malformed).
C29_DevnetAsTestnet ==
  (parsed.called /\ parsed.chainId \in {Testnet, Devnet})
  => /\ (parsed.result.status = 0) = (OnTwinChain.status = 0)
     /\ parsed.result.status # 0
        => /\ parsed.result.correctChecksum = OnTwinChain.correctChecksum
           /\ parsed.result.withChecksumFormat = OnTwinChain.withChecksumFormat

\* a checksum was computed on devnet for an address written without one
C29_Witness ==
  /\ parsed.called
  /\ parsed.chainId = Devnet
  /\ ~parsed.given
  /\ parsed.result.status = 2
  /\ parsed.result.withChecksumFormat
       = parsed.result.noChecksumFormat \o <<Hyphen>> \o OnTwinChain.correctChecksum

\* C30: verify creates a session for an identity only if, earlier in the same
\* request, a nonce stored for the request's (address, chainId) key was found
\* and had not expired, and the injected verifier answered true for it, and the
\* identity owns a walletAddress row of that address; a request that was
\* rejected makes no further step, so none reaches session creation.
C30_SessionOnlyAfterProof ==
  [][\A r \in Requests :
       /\ (Handed(r) /\ req'[r].op = "verify")
          => \E v \in verification :
               /\ v.id = req'[r].verification
               /\ v.identifier = KeyOf(req'[r])
               /\ v.value = req'[r].nonce
               /\ now <= v.expiresAt
       /\ (At(r, "verify", "createSession") /\ req'[r] # req[r])
          => /\ req[r].nonce # 0
             /\ req[r].verified
             /\ req[r].status = ""
             /\ req[r].userId # 0
             /\ \E x \in walletAddress :
                  x.address = req[r].address /\ x.userId = req[r].userId
             /\ session' \subseteq session \cup {[userId |-> req[r].userId]}
       /\ req'[r].pc = "createSession"
          => req'[r].op = "verify" /\ req'[r].verified /\ req'[r].nonce # 0
       /\ (req[r].pc = "done" /\ req'[r] # req[r]) => Starts(r)
       /\ session' # session
          => \E o \in Requests : At(o, "verify", "createSession") /\ req'[o] # req[o]
    ]_vars

\* a verify signed an identity in that an earlier sign-up had created
C30_Witness ==
  \E r \in Requests :
    /\ req[r].op = "verify"
    /\ req[r].status = "SIGNED_IN"
    /\ req[r].verified
    /\ req[r].userId \notin {1, 2}
    /\ [userId |-> req[r].userId] \in session
    /\ \E x \in walletAddress :
         x.address = req[r].address /\ x.userId = req[r].userId

\* C31: every verify that completes successfully passes through the session
\* request before it is done, also when it created its identity: its last
\* step is the one after createSession.
C31_SessionBeforeDone ==
  [][\A r \in Requests :
       (req'[r] # req[r] /\ req'[r].op = "verify" /\ req'[r].pc = "done"
          /\ req'[r].status \in {"SIGNED_IN", "SIGNED_UP"})
       => req[r].pc = "setSessionCookie"]_vars

\* C31 as the code has it: a verify that signs an identity in that it found
\* passes through createSession before it is done; a verify that created its
\* identity is done after createAccount (or linkAccount, with a password) and
\* never asks for a session.
C31_SessionBeforeDoneOnSignIn ==
  [][\A r \in Requests :
       /\ (req'[r] # req[r] /\ req'[r].op = "verify" /\ req'[r].pc = "done"
             /\ req'[r].status \in {"SIGNED_IN", "SIGNED_UP"})
          => IF req'[r].signUp
               THEN /\ req'[r].status = "SIGNED_UP"
                    /\ req[r].pc \in {"createAccount", "linkAccount"}
                    /\ session' = session
               ELSE /\ req'[r].status = "SIGNED_IN"
                    /\ req[r].pc = "setSessionCookie"
                    /\ [userId |-> req'[r].userId] \in session
       /\ req'[r].pc \in {"createSession", "setSessionCookie"} => ~req'[r].signUp
    ]_vars

\* one verify created an identity and is done without a session request,
\* another signed that identity in
C31_Witness ==
  \E r, o \in Requests :
    /\ req[r].op = "verify" /\ req[r].status = "SIGNED_UP" /\ req[r].signUp
    /\ req[o].op = "verify" /\ req[o].status = "SIGNED_IN" /\ ~req[o].signUp
    /\ req[o].userId = req[r].userId

\* the calls of options.verifyMessage a request of (rawAddress, chainId) can
\* make with a nonce
Calls(rawAddress, chainId, nonce) ==
  {NoCall, VerifyMessageArgs(rawAddress, chainId, nonce),
   LinkMessageArgs(rawAddress, chainId, nonce)}

\* the outcomes a nonce lookup for (rawAddress, chainId) can have: a status
\* (none when the request goes on), the nonce handed over, the verifier's call
Outcomes(rawAddress, chainId) ==
  LET nonces == {0} \cup {v.value : v \in verification}
  IN  {o \in {"", "INVALID_OR_EXPIRED_NONCE", "NONCE_EXPIRED"} \X nonces
               \X UNION {Calls(rawAddress, chainId, n) : n \in nonces} :
         o[3] \in Calls(rawAddress, chainId, o[2])}

\* a verify of (rawAddress, chainId) that passes its input checks arrives
\* and its lookup has this outcome
VerifyYields(r, rawAddress, chainId, status, address, nonce, call) ==
  /\ \E email \in Emails : VerifyFindVerificationValue(r, rawAddress, chainId, email)
  /\ req'[r].status \notin InputErrors
  /\ req'[r].status = status
  /\ req'[r].address = address
  /\ req'[r].nonce = nonce
  /\ req'[r].call = call
  /\ (req'[r].pc = "verifyMessage") = (status = "")

\* a link of (rawAddress, chainId) that passes its session checks arrives
\* and its lookup has this outcome
LinkYields(r, rawAddress, chainId, status, address, nonce, call) ==
  /\ \E sessionUser \in SessionUsers :
       LinkFindVerificationValue(r, sessionUser, rawAddress, chainId)
  /\ req'[r].status \notin InputErrors
  /\ req'[r].status = status
  /\ req'[r].address = address
  /\ req'[r].nonce = nonce
  /\ req'[r].call = call
  /\ (req'[r].pc = "verifyMessage") = (status = "")

\* C32: link validates the address, looks the nonce up, tests its expiry,
\* calls the verifier and deletes the nonce as verify does: in every state, for
\* the same rawAddress and chainId, a link and a verify that pass their own
\* input checks have the same outcome of the lookup (accepted or rejected, with
\* the same status), work on the same address form and pass the same arguments
\* to the verifier; and the steps from the verifier's answer to the nonce
\* delete are the same function of the answer for both, leaving the
\* verification table in the same state.
C32_LinkAsVerify ==
  /\ [](\A r \in Requests, rawAddress \in RawAddresses, chainId \in ChainIds :
          New(r) =>
            LET address == WalletAddressOf[chainId, rawAddress]
                ofVerify ==
                  {o \in Outcomes(rawAddress, chainId) :
                     ENABLED VerifyYields(r, rawAddress, chainId, o[1], address,
                                          o[2], o[3])}
                ofLink ==
                  {o \in Outcomes(rawAddress, chainId) :
                     ENABLED LinkYields(r, rawAddress, chainId, o[1], address,
                                        o[2], o[3])}
            IN  ofVerify = ofLink /\ Cardinality(ofVerify) = 1)
  /\ [][\A r \in Requests :
          (req[r].op \in {"verify", "link"} /\ req'[r] # req[r])
          => /\ req[r].pc = "verifyMessage"
                => /\ verification' = verification
                   /\ \/ /\ req'[r].pc = "done"
                         /\ req'[r].status = "INVALID_SIGNATURE"
                         /\ ~req'[r].verified
                      \/ /\ req'[r].pc = "deleteVerificationValue"
                         /\ req'[r].verified
                   /\ req'[r].call = req[r].call
                   /\ req'[r].nonce = req[r].nonce
             /\ req[r].pc = "deleteVerificationValue"
                => /\ verification'
                        = {v \in verification : v.id # req[r].verification}
                   /\ req'[r].pc = "findWalletAddress"
       ]_vars

\* a verify and a link were handed the same nonce, made the same call of the
\* verifier and both went on past the nonce delete
C32_Witness ==
  \E r, o \in Requests :
    /\ req[r].op = "verify" /\ req[o].op = "link"
    /\ req[r].nonce # 0 /\ req[r].nonce = req[o].nonce
    /\ req[r].call.called /\ req[r].call = req[o].call
    /\ req[r].verified /\ req[o].verified
    /\ Accepted(req[r]) /\ Accepted(req[o])
    /\ \A v \in verification : v.value # req[r].nonce

\* C33: the verifier is called only by a verify or link that has just found a
\* live nonce under its own (address, chainId) key: the call carries the value
\* of a row stored under that key, not expired, in a challenge whose domain,
\* aud and iss are options.domain and whose version is "1"; a request makes
\* the call once, and a request that found no live nonce makes none.
C33_VerifierCalledWithStoredNonce ==
  [][\A r \in Requests :
       /\ ((Starts(r) \/ req'[r].call # req[r].call) /\ req'[r].call.called)
          => /\ Handed(r)
             /\ req'[r].call.chainId = req'[r].chainId
             /\ req'[r].call.cacao.p.nonce = req'[r].nonce
             /\ req'[r].call.cacao.p.domain = Domain
             /\ req'[r].call.cacao.p.aud = Domain
             /\ req'[r].call.cacao.p.iss = Domain
             /\ req'[r].call.cacao.p.version = "1"
             /\ \E v \in verification :
                  /\ v.identifier = KeyOf(req'[r])
                  /\ v.value = req'[r].call.cacao.p.nonce
                  /\ now <= v.expiresAt
       /\ Handed(r) => req'[r].call.called
       /\ (Starts(r) /\ req'[r].status = "INVALID_OR_EXPIRED_NONCE")
          => ~req'[r].call.called
       /\ ~Starts(r) => req'[r].call = req[r].call
    ]_vars

\* a link called the verifier with the nonce issued last, while an older
\* nonce is stored too
C33_Witness ==
  \E r \in Requests :
    /\ req[r].op = "link"
    /\ req[r].pc = "verifyMessage"
    /\ req[r].call.called
    /\ \E v, old \in verification :
         /\ v.identifier = KeyOf(req[r])
         /\ v.value = req[r].call.cacao.p.nonce
         /\ old.id < v.id

\* the nonce lifetime: 15 minutes, in ms
NonceLifetime == 15 * 60 * 1000

\* the address text of the body is a valid address on the body's chain
\* (toChecksumAddress: written without a checksum, or with the right one)
BodyAddressValid == toChecksumAddress(parsed.chainId, AddressOf(parsed)).isValid

\* the canonical form of the body's address: its text up to the checksum,
\* "-" and the checksum of that text on the body's chain
BodyCanonical ==
  Canonical(parsed.parts) \o <<Hyphen>>
    \o computeChecksum(parsed.chainId, Canonical(parsed.parts))

\* C34: getSiwhNonce for a valid address stores the generated nonce under the
\* (canonical address, chainId) key with expiry now + 15 minutes and returns
\* exactly the stored value; for an invalid address it fails without a call
\* of the nonce generator and without a write to the verification table.
C34_NonceStoredAndReturned ==
  [][\A r \in Requests :
       (Starts(r) /\ req'[r].op = "nonce")
       => IF BodyAddressValid
            THEN /\ req'[r].status = "NONCE_ISSUED"
                 /\ issued' = issued + 1
                 /\ verification \subseteq verification'
                 /\ \E v \in verification' \ verification :
                      /\ verification' \ verification = {v}
                      /\ v.identifier = Identifier(BodyCanonical, parsed.chainId)
                      /\ v.expiresAt = now + NonceLifetime
                      /\ v.value = req'[r].nonce
                      /\ v.value \notin {o.value : o \in verification}
            ELSE /\ req'[r].status # "NONCE_ISSUED"
                 /\ req'[r].nonce = 0
                 /\ issued' = issued
                 /\ verification' = verification
    ]_vars

\* the linked-auth records of the caller that are the wallet (address,
\* chainId): the siwh accounts with the accountId the plugin writes, or with
\* the one unlink looks for
OfRequestedWallet(q) ==
  {a \in account :
     /\ a.userId = q.sessionUser
     /\ a.providerId = "siwh"
     /\ a.accountId \in {SiwhAccountId(q.address, q.chainId),
                         BareAccountId(q.address)}}

\* C35: unlink answers FAILED_TO_UNLINK_LAST_ACCOUNT only when the requested
\* wallet is itself the caller's last account; when the caller's single
\* account is not the requested (address, chainId), unlink answers
\* ACCOUNT_NOT_FOUND.
C35_LastAccountOnlyForRequestedWallet ==
  [][\A r \in Requests :
       (Starts(r) /\ req'[r].op = "unlink" /\ req'[r].sessionUser # 0)
       => LET accounts == findAccounts(req'[r].sessionUser)
          IN /\ req'[r].status = "FAILED_TO_UNLINK_LAST_ACCOUNT"
                => /\ Cardinality(accounts) = 1
                   /\ accounts = OfRequestedWallet(req'[r])
             /\ (Cardinality(accounts) = 1 /\ OfRequestedWallet(req'[r]) = {})
                => req'[r].status = "ACCOUNT_NOT_FOUND"
    ]_vars

\* C36: nonce key isolation: a nonce issued for (address, chainId) is found,
\* passed to the verifier and deleted only by a verify or link of that address
\* and that chainId, also between hedera:testnet and hedera:devnet, whose
\* addresses have the same text: the row a request is handed was stored under
\* the request's own key, a request deletes no row of another key, and a
\* nonce value is stored under one key only.
C36_NonceKeyIsolation ==
  [][/\ \A v, o \in verification' : v.value = o.value => v = o
     /\ \A r \in Requests :
          /\ (Handed(r) /\ req'[r].op \in {"verify", "link"})
             => \E v \in verification :
                  /\ v.id = req'[r].verification
                  /\ v.value = req'[r].nonce
                  /\ v.value = req'[r].call.cacao.p.nonce
                  /\ v.identifier.address = req'[r].address
                  /\ v.identifier.chainId = req'[r].chainId
                  /\ req'[r].call.chainId = v.identifier.chainId
          /\ (req[r].op \in {"verify", "link"} /\ req'[r] # req[r] /\ ~Starts(r))
             => \A v \in verification \ verification' :
                  /\ v.identifier = KeyOf(req[r])
                  /\ v.value = req[r].nonce
          /\ Starts(r) => verification \subseteq verification'
    ]_vars

\* a request for devnet was refused its nonce while a live nonce is stored for
\* the same address text on testnet and another for a different address on
\* devnet
C36_Witness ==
  \E r \in Requests, v, o \in verification :
    /\ req[r].op \in {"verify", "link"}
    /\ req[r].chainId = Devnet
    /\ req[r].status = "INVALID_OR_EXPIRED_NONCE"
    /\ v.identifier.chainId = Testnet
    /\ v.identifier.address = req[r].address
    /\ now <= v.expiresAt
    /\ o.identifier.chainId = Devnet
    /\ o.identifier.address # req[r].address
    /\ now <= o.expiresAt

\* the failures of a verify or link after the verifier accepted
LateFailures ==
  {"USER_NOT_FOUND", "USER_ALREADY_EXISTS", "FAILED_TO_CREATE_SESSION",
   "ALREADY_LINKED_TO_YOUR_ACCOUNT", "ALREADY_LINKED_TO_ANOTHER_ACCOUNT"}

\* C37: the nonce is deleted as soon as the verifier accepts, before identity
\* resolution: a verify or link that ends with one of the late failures has
\* deleted the row it was handed, and a retry for the same key made while no
\* nonce has been requested since the consumed one ends with the
\* invalid-or-expired-nonce error.
C37_ConsumedBeforeResolution ==
  [][\A r \in Requests :
       /\ (req'[r] # req[r] /\ ~Starts(r) /\ req'[r].status \in LateFailures)
          => /\ req[r].verified
             /\ \A v \in verification' : v.id # req[r].verification
       /\ (req[r].pc = "deleteVerificationValue" /\ req'[r] # req[r])
          => req'[r].pc = "findWalletAddress"
       /\ (/\ Starts(r)
           /\ req'[r].op \in {"verify", "link"}
           /\ req'[r].status \notin InputErrors
           /\ \E o \in Requests :
                /\ req[o].pc = "done"
                /\ req[o].status \in LateFailures
                /\ KeyOf(req[o]) = KeyOf(req'[r])
                /\ req[o].nonce = issued)
          => req'[r].status = "INVALID_OR_EXPIRED_NONCE"
    ]_vars

C39_NoSecondCredential ==
  [][\A r \in Requests :
       (req[r].op = "verify" /\ req'[r] # req[r])
       => /\ \A x \in walletAddress' \ walletAddress :
               WalletRows(x.address, x.chainId) = {}
          /\ \A a \in account' \ account :
               a.providerId = "siwh"
               => \A x \in WalletRows(req[r].address, req[r].chainId) :
                    x.userId = req[r].userId
                    /\ Cardinality(WalletRows(req[r].address, req[r].chainId)) = 1
    ]_vars

====
